---- MODULE Spec2Model ----
(***************************************************************************)
(* Booking reviews scraper: URL discovery, work distribution, per-worker   *)
(* batching and the lock-guarded incremental CSV writer.                   *)
(*                                                                         *)
(* Values are modelled by the text csv.DictWriter writes for them; Python  *)
(* None is the marker NoneVal.                                             *)
(***************************************************************************)
EXTENDS Integers, Sequences, FiniteSets, TLC

(* ---------------------------- bounds ----------------------------------- *)
MaxUrls == 3
MaxThreads == 2
MaxBatch == 2
MaxCalls == 3
MaxCsvBatch == 2
NumFiller == 14
MaxChunkUrls == 7
MaxChunkThreads == 7

Workers == 1..MaxThreads

VARIABLES
    property_urls,   \* list returned by scrape_property_urls
    num_threads,     \* scrape_booking_properties argument
    batch_size,      \* scrape_booking_properties argument
    url_chunks,      \* chunks built so far
    ci,              \* loop variable i of the chunk loop (0-based, next to run)
    opc,             \* position of scrape_booking_properties
    reported,        \* worker outcomes consumed by the as_completed loop
    pc,              \* position of each worker_thread
    chunk,           \* urls_chunk of each worker
    idx,             \* loop variable i of each worker (1-based, 0 before the loop)
    batch,           \* batch of each worker
    processed,       \* processed counter of each worker
    data_list,       \* save_to_csv argument of the running call
    fieldnames,      \* save_to_csv local
    file_exists,     \* save_to_csv local
    rowi,            \* next item of data_list to write
    ret,             \* where the running save_to_csv call returns to
    csv_lock,        \* 0 when free, else the holder
    file,            \* the CSV store
    handed,          \* history: batches handed to save_to_csv, per worker
    interrupted,     \* history: KeyboardInterrupt was raised in the worker
    ncall,           \* history: number of save_to_csv calls made, per worker
    dpc,             \* position of scrape_property_urls
    all_urls,        \* scrape_property_urls local
    seen,            \* scrape_property_urls local: canonical forms met
    first_met,       \* history: per canonical form, the first href met, in order
    dup_met,         \* history: a link differing only in its query string was met
    found,           \* what scrape_property_urls returned
    vpc,             \* position of validate_apartment_data
    data,            \* validate_apartment_data argument
    valid,           \* what validate_apartment_data returned
    lpc,             \* position of _scrape_single_listing
    page_source,     \* driver.page_source of the listing
    cascade,         \* the extraction cascade that ran last
    tried,           \* history: outcome of each strategy of that cascade, in order
    title,           \* _scrape_single_listing local
    price,           \* _scrape_single_listing local
    address,         \* _scrape_single_listing local
    coords,          \* _scrape_single_listing locals lat, lng
    listing,         \* what _scrape_single_listing returned
    attempted,       \* history: the URLs each worker passed to scrape_property_data
    session,         \* history: the browser session of each worker
    disc_session,    \* the browser session of scrape_property_urls
    io_budget,       \* number of I/O errors the file system may still raise
    io_failed,       \* history: the save_to_csv calls that raised
    cpc,             \* position of scrape_city
    all_links,       \* scrape_city local
    city_batch_size, \* config.batch_size
    city_i,          \* loop variable i of scrape_city
    city_j,          \* number of listings of the current batch already scraped
    batch_results,   \* scrape_city local (each apartment kept as its URL)
    city_file,       \* the CSV file of _save_to_csv_incremental
    save_log,        \* history: the _save_to_csv_incremental calls and how they ended
    wpc,             \* position of the wifi scraper's save_to_csv
    wifi_calls,      \* number of calls of it made so far
    wifi_data_list,  \* its argument data_list
    wifi_rowi,       \* next item of data_list to write
    wifi_file,       \* the CSV file it writes
    rpc,             \* position of the reviews scraper's scrape_property_urls
    r_query,         \* index of search_url in urls (1-based)
    max_links,       \* its argument max_links
    scroll_attempts, \* its local scroll_attempts
    r_urls,          \* its local all_urls
    r_seen,          \* canonical forms of the entries of all_urls
    r_signal,        \* what the page showed in the running iteration
    r_skipped,       \* history: the last query whose links the cap cut short, or 0
    r_found,         \* its return value
    mpc,             \* position of the threaded scraper's scrape_property_urls
    m_query,         \* index of search_url in SEARCH_URLS (1-based)
    m_urls,          \* its local all_urls
    clicks,          \* clicks on the "more results" button for the running query
    m_found,         \* what scrape_booking_properties gets from it
    apc,             \* position of _load_all_listings
    offset,          \* its local offset
    link_set,        \* its local all_links
    met_hrefs,       \* history: the href attributes read from the pages
    loaded,          \* its return value
    bpc,             \* position of scrape_all_properties_to_csv_single_threaded
    batch_number,    \* its local batch_number
    backup_file,     \* the CSV store it writes
    initial_file,    \* history: the store as the run found it
    fpc,             \* position of the function under evaluation
    farg,            \* its argument
    fres,            \* its result
    qpc,             \* position of scrape_property_data
    p_url,           \* index of the URL of the chunk being scraped (1-based)
    pdata,           \* its local data
    p_failed,        \* history: the steps of the running call that failed
    windows,         \* number of windows the driver has open
    active,          \* the driver's active window: "parent" or "reviews"
    new_window,      \* its local new_window, as a truth value
    locators,        \* history: the locators the review-link loop waited on
    coords_from,     \* history: the window whose source the coordinates came from
    tpc,             \* position of scrape_city's listing loop and _retry_operation
    t_listing,       \* index of the listing being scraped (1-based)
    t_attempt,       \* loop variable attempt of _retry_operation
    t_calls,         \* history: invocations of _scrape_single_listing for the listing
    t_errored,       \* history: an invocation for the listing met an error
    t_log,           \* history: per listing, how _retry_operation ended
    review_pc,       \* position of the review paging loop
    review_fn,       \* the function running the loop
    page_count,      \* its local page_count
    pages_read,      \* history: review pages whose cards were read by the running loop
    n_scores,        \* scores collected so far
    g_pc,            \* position of the backup scraper's worker_thread
    g_i,             \* its loop variable i
    g_n,             \* len(property_urls_chunk)
    g_bsize,         \* its argument batch_size
    g_batch,         \* its local current_batch
    g_rows,          \* the data rows of the store
    g_queue,         \* progress_queue
    g_total,         \* total_processed of scrape_all_properties_threaded
    g_mpc,           \* position of scrape_all_properties_threaded
    g_faults,        \* write failures still to come
    xpc,             \* position of each worker in ThreadSafeCSVWriter.write_batch
    x_calls,         \* write_batch calls made, per worker
    x_props,         \* properties_data of the running call, per worker
    x_first,         \* is_first_batch of the running call, per worker
    x_fields,        \* fieldnames of the running call, per worker
    x_file           \* the store write_batch writes

orchVars == <<property_urls, num_threads, batch_size, url_chunks, ci, opc, reported>>
workVars == <<pc, chunk, idx, batch, processed, interrupted>>
saveVars == <<data_list, fieldnames, file_exists, rowi, ret, handed, ncall>>
discVars == <<dpc, all_urls, seen, first_met, dup_met, found>>
valVars == <<vpc, data, valid>>
listVars == <<lpc, page_source, cascade, tried, title, price, address, coords, listing>>
ghostVars == <<attempted, session>>
envVars == <<disc_session, io_budget, io_failed>>
cityVars == <<cpc, all_links, city_batch_size, city_i, city_j, batch_results, city_file, save_log>>
wifiVars == <<wpc, wifi_calls, wifi_data_list, wifi_rowi, wifi_file>>
scrollVars == <<rpc, r_query, max_links, scroll_attempts, r_urls, r_seen, r_signal, r_skipped,
               r_found>>
moreVars == <<mpc, m_query, m_urls, clicks, m_found>>
loadVars == <<apc, offset, link_set, met_hrefs, loaded>>
backupVars == <<bpc, batch_number, backup_file, initial_file>>
pureVars == <<fpc, farg, fres>>
propVars == <<qpc, p_url, pdata, p_failed, windows, active, new_window, locators, coords_from>>
retryVars == <<tpc, t_listing, t_attempt, t_calls, t_errored, t_log>>
reviewVars == <<review_pc, review_fn, page_count, pages_read, n_scores>>
progVars == <<g_pc, g_i, g_n, g_bsize, g_batch, g_rows, g_queue, g_total, g_mpc, g_faults>>
writerVars == <<xpc, x_calls, x_props, x_first, x_fields, x_file>>
lastVars == <<propVars, retryVars, reviewVars, progVars, writerVars>>
newVars == <<scrollVars, moreVars, loadVars, backupVars, pureVars, lastVars>>
extVars == <<listVars, envVars, ghostVars, cityVars, wifiVars, newVars>>
auxVars == <<discVars, valVars, extVars>>
\* auxVars without the histories the worker keeps
auxNoGhost == <<discVars, valVars, listVars, envVars, cityVars, wifiVars, newVars>>
runVars == <<orchVars, workVars, saveVars, csv_lock, file>>
vars == <<runVars, auxVars>>

(* ---------------------------- helpers ---------------------------------- *)
Range(s) == {s[k] : k \in 1..Len(s)}

InSeq(x, s) == \E k \in 1..Len(s) : s[k] = x

IsPrefix(s, t) == Len(s) <= Len(t) /\ \A k \in 1..Len(s) : s[k] = t[k]

NoneVal == "<None>"

Min(a, b) == IF a < b THEN a ELSE b

\* Python values: None, a str, a float; Absent is a key the dict lacks
PyAbsent == [t |-> "absent", s |-> "", n |-> 0]

PyNone == [t |-> "none", s |-> "", n |-> 0]

PyStr(x) == [t |-> "str", s |-> x, n |-> 0]

PyNum(x) == [t |-> "num", s |-> "", n |-> x]

\* a scraped text kept as its tokens (words, address parts or characters), or
\* Python None
NoText == [t |-> "none", toks |-> << >>]

Text(toks) == [t |-> "text", toks |-> toks]

\* the truth value of a scraped text: None and '' are false
IsTrue(v) == v.t = "text" /\ v.toks # << >>

(* ------------------------- records and rows ---------------------------- *)
\* get_all_possible_fields()
BaseFields ==
    << "property_id", "scrape_timestamp", "property_url", "category",
       "general_review", "general_review_count", "comfort_score",
       "value_score", "location_score", "wifi_score",
       "avg_review_score_all", "avg_review_score_all_count",
       "avg_review_score_families", "avg_review_score_families_count",
       "avg_review_score_couples", "avg_review_score_couples_count",
       "avg_review_score_solo_travelers", "avg_review_score_solo_travelers_count",
       "avg_review_score_business_travellers",
       "avg_review_score_business_travellers_count",
       "avg_review_score_groups_friends", "avg_review_score_groups_friends_count",
       "min_price", "max_price", "latitude", "longitude", "address", "zone",
       "city", "wifi_speed" >>

\* keys of the data dict scrape_property_data starts from
DataKeys == Range(BaseFields) \ {"avg_review_score_groups_friends",
                                 "avg_review_score_groups_friends_count"}

\* traveler-type fields outside the predefined list, in sorted() order
DynSorted == << "x", "y", "z" >>
DynKeys == Range(DynSorted)

\* what a fully rendered page yields
FullPage ==
    [f \in DataKeys |->
        CASE f = "category" -> "Apartment"
          [] f = "general_review" -> "8.5"
          [] f = "general_review_count" -> "12"
          [] f = "min_price" -> "80"
          [] f = "max_price" -> "120"
          [] f = "latitude" -> "31.6"
          [] f = "longitude" -> "-8.0"
          [] f = "address" -> "Rue A"
          [] f = "zone" -> "Medina"
          [] f = "city" -> "Marrakesh"
          [] f = "wifi_speed" -> "50 Mbps"
          [] OTHER -> NoneVal]

\* scrape_property_data(driver, url): the dict it returns for a page of the
\* given kind; dyn are the traveler-type keys the reviews added
scrape_property_data(url, kind, dyn) ==
    [f \in DataKeys \cup dyn |->
        CASE f = "property_id" -> "id-" \o url
          [] f = "scrape_timestamp" -> "ts"
          [] f = "property_url" -> url
          [] f \in dyn -> "7.0"
          [] kind = "loadfail" -> NoneVal
          [] kind = "blank" -> IF f = "wifi_speed" THEN "Not specified" ELSE NoneVal
          [] OTHER -> FullPage[f]]

\* a batch element is kept as [url, kind, dyn]; Item expands it to the dict
Item(rec) == scrape_property_data(rec.url, rec.kind, rec.dyn)

\* item.get('property_url', '') as written by the csv writer (None -> '')
GetPropertyUrl(item) ==
    IF "property_url" \in DOMAIN item /\ item["property_url"] # NoneVal
    THEN item["property_url"] ELSE ""

\* the default of the else branch of the row loop
DefaultFor(field, item) ==
    IF field = "property_url" THEN GetPropertyUrl(item)
    ELSE IF field \in {"category", "address", "zone", "city", "wifi_speed"} THEN ""
    ELSE IF field \in {"latitude", "longitude"} THEN ""
    ELSE "0"

\* the row dict of one item, in the order of fieldnames
RowFor(item, fields) ==
    [k \in 1..Len(fields) |->
        IF fields[k] \in DOMAIN item /\ item[fields[k]] # NoneVal
        THEN item[fields[k]]
        ELSE DefaultFor(fields[k], item)]

\* dynamic_fields of a batch
DynamicFields(items) ==
    UNION {DOMAIN Item(items[k]) \ Range(BaseFields) : k \in 1..Len(items)}

\* base_fields + sorted(list(dynamic_fields))
BatchFieldnames(items) ==
    BaseFields \o SelectSeq(DynSorted, LAMBDA f : f \in DynamicFields(items))

RECURSIVE MergeInto(_, _)
\* the merge loop: append every field of fields not yet in acc
MergeInto(acc, fields) ==
    IF fields = << >> THEN acc
    ELSE MergeInto(IF InSeq(Head(fields), acc) THEN acc ELSE Append(acc, Head(fields)),
                   Tail(fields))

\* all_fieldnames when the file exists with a header, else fieldnames
MergeFieldnames(exists, existing, fields) ==
    IF exists /\ existing # << >> THEN MergeInto(existing, fields) ELSE fields

\* a line of the store: its cells, and as history the call (worker w, its k-th
\* save_to_csv) that wrote it and the record it was written for
HeaderLine(fields, w, k) ==
    [kind |-> "H", cells |-> fields, w |-> w, k |-> k, url |-> ""]

RowLine(cells, w, k, url) ==
    [kind |-> "R", cells |-> cells, w |-> w, k |-> k, url |-> url]

NoFile == [exists |-> FALSE, lines |-> << >>]

\* reader.fieldnames or []: the first line of the file, whatever it is
ExistingFieldnames(f) ==
    IF f.exists /\ Len(f.lines) > 0 THEN f.lines[1].cells ELSE << >>

(* ------------------------------ save_to_csv ---------------------------- *)
\* save_to_csv(items, filename) called by worker w, returning to retpc:
\* "if not data_list: return", else the field list of the batch is built and
\* the caller goes on to wait for csv_lock
CallSave(w, items, retpc) ==
    /\ data_list' = [data_list EXCEPT ![w] = items]
    /\ ret' = [ret EXCEPT ![w] = retpc]
    /\ handed' = [handed EXCEPT ![w] = Append(@, items)]
    /\ ncall' = [ncall EXCEPT ![w] = @ + 1]
    /\ IF items = << >>
       THEN /\ pc' = [pc EXCEPT ![w] = retpc]
            /\ UNCHANGED fieldnames
       ELSE /\ fieldnames' = [fieldnames EXCEPT ![w] = BatchFieldnames(items)]
            /\ pc' = [pc EXCEPT ![w] = "s_lock"]
    /\ UNCHANGED <<file_exists, rowi>>

LockFreeBroken(lock) == TRUE

\* csv_lock can be acquired
LockFree(lock) == lock = 0

\* "with csv_lock:" entry
AcquireLock(w) ==
    /\ pc[w] = "s_lock"
    /\ LockFree(csv_lock)
    /\ csv_lock' = w
    /\ pc' = [pc EXCEPT ![w] = "s_read"]
    /\ UNCHANGED <<auxVars, orchVars, chunk, idx, batch, processed, interrupted, saveVars, file>>

\* open(filename, 'r'), DictReader.fieldnames, and the merge of the field lists
ReadHeader(w) ==
    /\ pc[w] = "s_read"
    /\ file_exists' = [file_exists EXCEPT ![w] = file.exists]
    /\ fieldnames' = [fieldnames EXCEPT ![w] =
                        MergeFieldnames(file.exists, ExistingFieldnames(file), @)]
    /\ pc' = [pc EXCEPT ![w] = "s_open"]
    /\ UNCHANGED <<auxVars, orchVars, chunk, idx, batch, processed, interrupted,
                   data_list, rowi, ret, handed, ncall, csv_lock, file>>

OpenModeBroken(exists) == "w"

\* mode = 'a' if file_exists else 'w'
OpenMode(exists) == IF exists THEN "a" ELSE "w"

\* open(filename, mode): 'w' creates or truncates, 'a' creates when absent
OpenFile(w) ==
    /\ pc[w] = "s_open"
    /\ file' = IF OpenMode(file_exists[w]) = "w" \/ ~file.exists
               THEN [exists |-> TRUE, lines |-> << >>]
               ELSE file
    /\ pc' = [pc EXCEPT ![w] = "s_header"]
    /\ UNCHANGED <<auxVars, orchVars, chunk, idx, batch, processed, interrupted, saveVars, csv_lock>>

\* "if not file_exists: writer.writeheader()"
WriteHeader(w) ==
    /\ pc[w] = "s_header"
    /\ file' = IF ~file_exists[w]
               THEN [file EXCEPT !.lines = Append(@, HeaderLine(fieldnames[w], w, ncall[w]))]
               ELSE file
    /\ rowi' = [rowi EXCEPT ![w] = 1]
    /\ pc' = [pc EXCEPT ![w] = "s_row"]
    /\ UNCHANGED <<auxVars, orchVars, chunk, idx, batch, processed, interrupted,
                   data_list, fieldnames, file_exists, ret, handed, ncall, csv_lock>>

\* one turn of "for item in data_list": build the row and writer.writerow(row)
WriteRow(w) ==
    /\ pc[w] = "s_row"
    /\ rowi[w] <= Len(data_list[w])
    /\ file' = [file EXCEPT !.lines =
                  Append(@, RowLine(RowFor(Item(data_list[w][rowi[w]]), fieldnames[w]),
                                    w, ncall[w], data_list[w][rowi[w]].url))]
    /\ rowi' = [rowi EXCEPT ![w] = @ + 1]
    /\ UNCHANGED <<auxVars, orchVars, workVars, data_list, fieldnames, file_exists, ret,
                   handed, ncall, csv_lock>>

\* end of the with blocks: the file is closed, csv_lock released, the call returns
CloseRelease(w) ==
    /\ pc[w] = "s_row"
    /\ rowi[w] > Len(data_list[w])
    /\ csv_lock' = IF csv_lock = w THEN 0 ELSE csv_lock
    /\ pc' = [pc EXCEPT ![w] = ret[w]]
    /\ UNCHANGED <<auxVars, orchVars, chunk, idx, batch, processed, interrupted, saveVars, file>>

SaveStep(w) ==
    \/ AcquireLock(w)
    \/ ReadHeader(w)
    \/ OpenFile(w)
    \/ WriteHeader(w)
    \/ WriteRow(w)
    \/ CloseRelease(w)

InLock(w) == pc[w] \in {"s_read", "s_open", "s_header", "s_row"}

InSave(w) == pc[w] = "s_lock" \/ InLock(w)

(* ------------------------------ worker_thread -------------------------- *)
\* webdriver.Chrome(...): the session is created, or the call raises and the
\* worker ends with that exception (the call is outside the try block)
StartWorker(w) ==
    /\ pc[w] = "start"
    /\ \E ok \in BOOLEAN :
         /\ pc' = [pc EXCEPT ![w] = IF ok THEN "loop" ELSE "failed"]
         /\ session' = IF ok
                       THEN [session EXCEPT ![w].created = @ + 1, ![w].open = TRUE]
                       ELSE session
    /\ UNCHANGED <<auxNoGhost, attempted, orchVars, chunk, idx, batch, processed, interrupted,
                   saveVars, csv_lock, file>>

ShouldFlushNoLast(b, size, i, n) == Len(b) >= size

\* len(batch) >= batch_size or i == len(urls_chunk)
ShouldFlush(b, size, i, n) == Len(b) >= size \/ i = n

\* the page the site serves for a URL
PageOf(url) ==
    CASE url = "u2" -> "loadfail"
      [] url = "u3" -> "blank"
      [] OTHER -> "full"

\* one turn of "for i, url in enumerate(urls_chunk, 1)" up to the save:
\* data = scrape_property_data(...); batch.append(data); processed += 1;
\* "Save batch when full or last item".  With no URL left the loop is over.
Iterate(w) ==
    /\ pc[w] = "loop"
    /\ IF idx[w] < Len(chunk[w])
       THEN LET url == chunk[w][idx[w] + 1]
                b == Append(batch[w], [url |-> url, kind |-> PageOf(url), dyn |-> {}])
            IN  /\ idx' = [idx EXCEPT ![w] = @ + 1]
                /\ attempted' = [attempted EXCEPT ![w] = Append(@, url)]
                /\ session' = [session EXCEPT ![w].users = @ \cup {w}]
                /\ batch' = [batch EXCEPT ![w] = b]
                /\ processed' = [processed EXCEPT ![w] = @ + 1]
                /\ IF ShouldFlush(b, batch_size, idx[w] + 1, Len(chunk[w]))
                   THEN CallSave(w, b, "reset")
                   ELSE /\ pc' = [pc EXCEPT ![w] = "loop"]
                        /\ UNCHANGED saveVars
       ELSE /\ pc' = [pc EXCEPT ![w] = "finally"]
            /\ UNCHANGED <<idx, batch, processed, saveVars, ghostVars>>
    /\ UNCHANGED <<auxNoGhost, orchVars, chunk, interrupted, csv_lock, file>>

\* batch = [] after the save, then time.sleep(1)
ResetBatch(w) ==
    /\ pc[w] = "reset"
    /\ batch' = [batch EXCEPT ![w] = << >>]
    /\ pc' = [pc EXCEPT ![w] = "loop"]
    /\ UNCHANGED <<auxVars, orchVars, chunk, idx, processed, interrupted, saveVars, csv_lock, file>>

\* the positions of the "for" statement inside the outer try block
InLoop(w) ==
    \/ pc[w] \in {"loop", "reset"}
    \/ InSave(w) /\ ret[w] = "reset"

\* KeyboardInterrupt raised inside the per-URL loop: the with blocks unwind
\* (csv_lock released, file closed) and control passes to the except clause
Interrupt(w) ==
    /\ InLoop(w)
    /\ ~interrupted[w]
    /\ interrupted' = [interrupted EXCEPT ![w] = TRUE]
    /\ csv_lock' = IF InLock(w) /\ csv_lock = w THEN 0 ELSE csv_lock
    /\ pc' = [pc EXCEPT ![w] = "except"]
    /\ UNCHANGED <<auxVars, orchVars, chunk, idx, batch, processed, saveVars, file>>

FlushPendingNever(b) == FALSE

\* "if batch:" of the except and finally clauses
FlushPending(b) == b # << >>

\* except KeyboardInterrupt: if batch: save_to_csv(batch, filename)
ExceptInterrupt(w) ==
    /\ pc[w] = "except"
    /\ IF FlushPending(batch[w])
       THEN CallSave(w, batch[w], "finally")
       ELSE /\ pc' = [pc EXCEPT ![w] = "finally"]
            /\ UNCHANGED saveVars
    /\ UNCHANGED <<auxVars, orchVars, chunk, idx, batch, processed, interrupted, csv_lock, file>>

\* finally: if batch: save_to_csv(batch, filename)
FinallyFlush(w) ==
    /\ pc[w] = "finally"
    /\ IF FlushPending(batch[w])
       THEN CallSave(w, batch[w], "quit")
       ELSE /\ pc' = [pc EXCEPT ![w] = "quit"]
            /\ UNCHANGED saveVars
    /\ UNCHANGED <<auxVars, orchVars, chunk, idx, batch, processed, interrupted, csv_lock, file>>

\* driver.quit(): returns, or raises when the session is no longer usable
QuitDriver(w) ==
    /\ pc[w] = "quit"
    /\ \E ok \in BOOLEAN :
         /\ pc' = [pc EXCEPT ![w] = IF ok THEN "done" ELSE "failed"]
         /\ session' = IF ok THEN [session EXCEPT ![w].open = FALSE] ELSE session
    /\ UNCHANGED <<auxNoGhost, attempted, orchVars, chunk, idx, batch, processed, interrupted,
                   saveVars, csv_lock, file>>

WorkerStep(w) ==
    \/ StartWorker(w)
    \/ Iterate(w)
    \/ ResetBatch(w)
    \/ ExceptInterrupt(w)
    \/ FinallyFlush(w)
    \/ QuitDriver(w)

(* ------------------------ scrape_booking_properties -------------------- *)
\* chunk_size = len(property_urls) // num_threads
ChunkSize(urls, n) == Len(urls) \div n

ChunkStart(urls, n, i) == i * ChunkSize(urls, n)

ChunkEndNoRemainder(urls, n, i) == ChunkStart(urls, n, i) + ChunkSize(urls, n)

\* end = len(property_urls) if i == num_threads - 1 else start + chunk_size
ChunkEnd(urls, n, i) ==
    IF i = n - 1 THEN Len(urls) ELSE ChunkStart(urls, n, i) + ChunkSize(urls, n)

\* property_urls[start:end]
Slice(urls, start, end) == SubSeq(urls, start + 1, end)

\* "if not property_urls: return"
NoProperties ==
    /\ opc = "begin"
    /\ property_urls = << >>
    /\ opc' = "returned"
    /\ UNCHANGED <<auxVars, property_urls, num_threads, batch_size, url_chunks, ci, reported,
                   workVars, saveVars, csv_lock, file>>

\* one turn of "for i in range(num_threads)", or the end of that loop
ChunkStep ==
    /\ opc = "begin"
    /\ property_urls # << >>
    /\ IF ci < num_threads
       THEN /\ url_chunks' =
                 IF ChunkStart(property_urls, num_threads, ci) < Len(property_urls)
                 THEN Append(url_chunks,
                             Slice(property_urls,
                                   ChunkStart(property_urls, num_threads, ci),
                                   ChunkEnd(property_urls, num_threads, ci)))
                 ELSE url_chunks
            /\ ci' = ci + 1
            /\ opc' = opc
       ELSE /\ opc' = "submit"
            /\ ci' = 0
            /\ UNCHANGED url_chunks
    /\ UNCHANGED <<auxVars, property_urls, num_threads, batch_size, reported,
                   workVars, saveVars, csv_lock, file>>

\* one turn of "for i, chunk in enumerate(url_chunks)": executor.submit(
\* worker_thread, chunk, i + 1, ...); after the last one the wait begins
Submit ==
    /\ opc = "submit"
    /\ IF ci < Len(url_chunks)
       THEN /\ pc' = [pc EXCEPT ![ci + 1] = "start"]
            /\ chunk' = [chunk EXCEPT ![ci + 1] = url_chunks[ci + 1]]
            /\ ci' = ci + 1
            /\ opc' = opc
       ELSE /\ opc' = "wait"
            /\ UNCHANGED <<pc, chunk, ci>>
    /\ UNCHANGED <<auxVars, property_urls, num_threads, batch_size, url_chunks, reported,
                   idx, batch, processed, interrupted, saveVars, csv_lock, file>>

Submitted == 1..Len(url_chunks)

Finished(w) == pc[w] \in {"done", "failed"}

Yielded == {reported[k].worker : k \in 1..Len(reported)}

\* one turn of "for i, future in enumerate(as_completed(futures))": a finished
\* future is yielded, future.result() returns or raises, and the outcome is
\* printed as that of "Thread {i + 1}"
AsCompleted ==
    /\ opc = "wait"
    /\ \E w \in Submitted \ Yielded :
         /\ Finished(w)
         /\ reported' = Append(reported, [label |-> Len(reported) + 1,
                                          worker |-> w,
                                          outcome |-> pc[w]])
    /\ UNCHANGED <<auxVars, property_urls, num_threads, batch_size, url_chunks, ci, opc,
                   workVars, saveVars, csv_lock, file>>

MayLeaveEarly == \E w \in Submitted : Finished(w)

\* as_completed is exhausted and the executor's shutdown(wait=True) has joined
\* every worker
MayLeave ==
    /\ \A w \in Submitted : Finished(w)
    /\ Submitted \subseteq Yielded

\* the end of the with block and of the function
Return ==
    /\ opc = "wait"
    /\ MayLeave
    /\ opc' = "returned"
    /\ UNCHANGED <<auxVars, property_urls, num_threads, batch_size, url_chunks, ci, reported,
                   workVars, saveVars, csv_lock, file>>

(* ---------------------------- the threaded run ------------------------- *)
UrlName(k) == "u" \o ToString(k)

UrlList(m) == [k \in 1..m |-> UrlName(k)]

\* no worker_thread is running and the store does not exist
WorkersIdle ==
    /\ chunk = [w \in Workers |-> << >>]
    /\ idx = [w \in Workers |-> 0]
    /\ batch = [w \in Workers |-> << >>]
    /\ processed = [w \in Workers |-> 0]
    /\ data_list = [w \in Workers |-> << >>]
    /\ fieldnames = [w \in Workers |-> << >>]
    /\ file_exists = [w \in Workers |-> FALSE]
    /\ rowi = [w \in Workers |-> 1]
    /\ ret = [w \in Workers |-> "idle"]
    /\ csv_lock = 0
    /\ file = NoFile
    /\ handed = [w \in Workers |-> << >>]
    /\ interrupted = [w \in Workers |-> FALSE]
    /\ ncall = [w \in Workers |-> 0]
    /\ attempted = [w \in Workers |-> << >>]
    /\ session = [w \in Workers |-> [created |-> 0, open |-> FALSE, users |-> {}]]

\* scrape_booking_properties is not running
OrchIdle ==
    /\ property_urls = << >>
    /\ num_threads = 1
    /\ batch_size = 1
    /\ url_chunks = << >>
    /\ ci = 0
    /\ opc = "none"
    /\ reported = << >>

\* scrape_property_urls is not running
DiscIdle ==
    /\ dpc = "none"
    /\ all_urls = << >>
    /\ seen = {}
    /\ first_met = << >>
    /\ dup_met = FALSE
    /\ found = << >>

\* validate_apartment_data is not running
ValIdle ==
    /\ vpc = "none"
    /\ data = << >>
    /\ valid = FALSE

\* _scrape_single_listing is not running
ListIdle ==
    /\ lpc = "none"
    /\ page_source = << >>
    /\ cascade = "none"
    /\ tried = << >>
    /\ title = NoText
    /\ price = PyNone
    /\ address = NoText
    /\ coords = <<PyNone, PyNone>>
    /\ listing = [some |-> FALSE, rec |-> << >>]

\* discovery is over and the file system raises no error
EnvIdle ==
    /\ disc_session = "closed"
    /\ io_budget = 0
    /\ io_failed = {}

\* scrape_city is not running
CityIdle ==
    /\ cpc = "none"
    /\ all_links = << >>
    /\ city_batch_size = 1
    /\ city_i = 0
    /\ city_j = 0
    /\ batch_results = << >>
    /\ city_file = NoFile
    /\ save_log = << >>

\* the wifi scraper's save_to_csv is not running
WifiIdle ==
    /\ wpc = "none"
    /\ wifi_calls = 0
    /\ wifi_data_list = << >>
    /\ wifi_rowi = 1
    /\ wifi_file = NoFile

\* the reviews scraper's scrape_property_urls is not running
ScrollIdle ==
    /\ rpc = "none"
    /\ r_query = 0
    /\ max_links = 0
    /\ scroll_attempts = 0
    /\ r_urls = << >>
    /\ r_seen = {}
    /\ r_signal = "none"
    /\ r_skipped = 0
    /\ r_found = << >>

\* the threaded scraper's scrape_property_urls is not followed step by step
MoreIdle ==
    /\ mpc = "none"
    /\ m_query = 0
    /\ m_urls = << >>
    /\ clicks = 0
    /\ m_found = << >>

\* _load_all_listings is not running
LoadIdle ==
    /\ apc = "none"
    /\ offset = 0
    /\ link_set = {}
    /\ met_hrefs = {}
    /\ loaded = << >>

\* the single-threaded backup scraper is not running
BackupIdle ==
    /\ bpc = "none"
    /\ batch_number = 0
    /\ backup_file = NoFile
    /\ initial_file = NoFile

\* no function is under evaluation
PureIdle ==
    /\ fpc = "none"
    /\ farg = << >>
    /\ fres = << >>

\* scrape_property_data is not followed step by step
PropIdle ==
    /\ qpc = "none"
    /\ p_url = 0
    /\ pdata = << >>
    /\ p_failed = {}
    /\ windows = 1
    /\ active = "parent"
    /\ new_window = FALSE
    /\ locators = << >>
    /\ coords_from = "none"

\* _retry_operation is not followed step by step
RetryIdle ==
    /\ tpc = "none"
    /\ t_listing = 0
    /\ t_attempt = 0
    /\ t_calls = 0
    /\ t_errored = FALSE
    /\ t_log = << >>

\* no review paging loop is running
ReviewIdle ==
    /\ review_pc = "none"
    /\ review_fn = "none"
    /\ page_count = 0
    /\ pages_read = 0
    /\ n_scores = 0

\* the backup scraper's threaded run is not running
ProgIdle ==
    /\ g_pc = "none"
    /\ g_i = 0
    /\ g_n = 0
    /\ g_bsize = 1
    /\ g_batch = << >>
    /\ g_rows = << >>
    /\ g_queue = << >>
    /\ g_total = 0
    /\ g_mpc = "none"
    /\ g_faults = 0

\* no write_batch call is running
WriterIdle ==
    /\ xpc = [w \in Workers |-> "none"]
    /\ x_calls = [w \in Workers |-> 0]
    /\ x_props = [w \in Workers |-> << >>]
    /\ x_first = [w \in Workers |-> FALSE]
    /\ x_fields = [w \in Workers |-> << >>]
    /\ x_file = NoFile

LastIdle ==
    /\ PropIdle
    /\ RetryIdle
    /\ ReviewIdle
    /\ ProgIdle
    /\ WriterIdle

NewIdle ==
    /\ ScrollIdle
    /\ MoreIdle
    /\ LoadIdle
    /\ BackupIdle
    /\ PureIdle
    /\ LastIdle

ExtIdle ==
    /\ ListIdle
    /\ EnvIdle
    /\ CityIdle
    /\ WifiIdle
    /\ NewIdle

Init ==
    /\ \E m \in 0..MaxUrls : property_urls = UrlList(m)
    /\ num_threads \in 1..MaxThreads
    /\ batch_size \in 1..MaxBatch
    /\ url_chunks = << >>
    /\ ci = 0
    /\ opc = "begin"
    /\ reported = << >>
    /\ pc = [w \in Workers |-> "idle"]
    /\ WorkersIdle
    /\ DiscIdle
    /\ ValIdle
    /\ ExtIdle

Next ==
    \/ NoProperties
    \/ ChunkStep
    \/ Submit
    \/ AsCompleted
    \/ Return
    \/ \E w \in Workers : WorkerStep(w)
    \/ \E w \in Workers : SaveStep(w)
    \/ \E w \in Workers : Interrupt(w)

Spec == Init /\ [][Next]_vars

(* --------------------- save_to_csv called batch after batch ------------ *)
\* the records a caller may put in a batch
CsvItems ==
    {[url |-> "u1", kind |-> "full", dyn |-> d] : d \in {{}, {"x", "y"}, {"y", "z"}}}
        \cup {[url |-> "u2", kind |-> "loadfail", dyn |-> {}]}

CsvBatches == UNION {[1..n -> CsvItems] : n \in 0..MaxCsvBatch}

\* the next save_to_csv(batch, filename) of a caller that writes batch after batch
CsvCall ==
    /\ pc[1] = "caller"
    /\ ncall[1] < MaxCalls
    /\ \E items \in CsvBatches : CallSave(1, items, "caller")
    /\ UNCHANGED <<auxVars, orchVars, chunk, idx, batch, processed, interrupted, csv_lock, file>>

InitCsv ==
    /\ OrchIdle
    /\ pc = [w \in Workers |-> IF w = 1 THEN "caller" ELSE "idle"]
    /\ WorkersIdle
    /\ DiscIdle
    /\ ValIdle
    /\ ExtIdle

NextCsv ==
    \/ CsvCall
    \/ AcquireLock(1)
    \/ ReadHeader(1)
    \/ OpenFile(1)
    \/ WriteHeader(1)
    \/ WriteRow(1)
    \/ CloseRelease(1)

SpecCsv == InitCsv /\ [][NextCsv]_vars

(* --------------------------- chunk building alone ---------------------- *)
InitChunks ==
    /\ \E m \in 0..MaxChunkUrls : property_urls = UrlList(m)
    /\ num_threads \in 1..MaxChunkThreads
    /\ batch_size = 1
    /\ url_chunks = << >>
    /\ ci = 0
    /\ opc = "begin"
    /\ reported = << >>
    /\ pc = [w \in Workers |-> "idle"]
    /\ WorkersIdle
    /\ DiscIdle
    /\ ValIdle
    /\ ExtIdle

NextChunks ==
    \/ NoProperties
    \/ ChunkStep

SpecChunks == InitChunks /\ [][NextChunks]_vars

(* --------------------------- scrape_property_urls ---------------------- *)
\* TEST_MAX_PROPERTIES
TEST_MAX_PROPERTIES == 15

\* An href is the sequence of its parts, "?" being the separator character.
\* Two listings are met under several query strings ...
RichHrefs ==
    {<<p>> : p \in {"h1", "h2"}}
        \cup {<<p, "?", q>> : p \in {"h1", "h2"}, q \in {"a", "b"}}
        \cup {<<p, "?", "a", "?", "b">> : p \in {"h1", "h2"}}

\* ... and NumFiller further listings under one
FillerHref(k) == <<"f" \o ToString(k), "?", "a">>

RECURSIVE SplitHead(_)
\* href.split('?')[0]
SplitHead(href) ==
    IF href = << >> \/ Head(href) = "?" THEN << >>
    ELSE <<Head(href)>> \o SplitHead(Tail(href))

CanonicalWhole(href) == href

\* canonical = href.split('?')[0]
Canonical(href) == SplitHead(href)

\* all_urls[:TEST_MAX_PROPERTIES] when the limit is set, else all_urls
Limit(urls) ==
    IF TEST_MAX_PROPERTIES # 0 /\ Len(urls) > TEST_MAX_PROPERTIES
    THEN SubSeq(urls, 1, TEST_MAX_PROPERTIES)
    ELSE urls

\* the hrefs the next title link may carry: any of the rich ones, the next
\* filler listing, or none (get_attribute returns None or '')
NextHrefs ==
    RichHrefs
        \cup {FillerHref(k) : k \in {j \in 1..NumFiller :
                                       /\ <<"f" \o ToString(j)>> \notin seen
                                       /\ \A i \in 1..(j - 1) : <<"f" \o ToString(i)>> \in seen}}
        \cup {<< >>}

\* one turn of "for link in links": "if href:", then the canonical form is
\* looked up in seen and a new one is recorded with the original href
CollectLink ==
    /\ dpc = "collect"
    /\ \E href \in NextHrefs :
         /\ IF href # << >> /\ Canonical(href) \notin seen
            THEN /\ seen' = seen \cup {Canonical(href)}
                 /\ all_urls' = Append(all_urls, href)
            ELSE UNCHANGED <<seen, all_urls>>
         /\ first_met' =
              IF href # << >> /\ \A k \in 1..Len(first_met) :
                                   SplitHead(first_met[k]) # SplitHead(href)
              THEN Append(first_met, href) ELSE first_met
         /\ dup_met' = (dup_met \/ \E k \in 1..Len(first_met) :
                                     /\ SplitHead(first_met[k]) = SplitHead(href)
                                     /\ first_met[k] # href)
    /\ UNCHANGED <<runVars, valVars, extVars, dpc, found>>

\* driver.quit() and the return of the (limited) list
ReturnUrls ==
    /\ dpc = "collect"
    /\ found' = Limit(all_urls)
    /\ dpc' = "returned"
    /\ UNCHANGED <<runVars, valVars, extVars, all_urls, seen, first_met, dup_met>>

InitUrls ==
    /\ OrchIdle
    /\ pc = [w \in Workers |-> "idle"]
    /\ WorkersIdle
    /\ dpc = "collect"
    /\ all_urls = << >>
    /\ seen = {}
    /\ first_met = << >>
    /\ dup_met = FALSE
    /\ found = << >>
    /\ ValIdle
    /\ ExtIdle

NextUrls ==
    \/ CollectLink
    \/ ReturnUrls

SpecUrls == InitUrls /\ [][NextUrls]_vars

(* --------------------- DataValidator.validate_apartment_data ----------- *)
\* data.get(field)
DictGet(d, field) == IF d[field].t = "absent" THEN PyNone ELSE d[field]

\* Python's truth value of a None, a str or a number
Truthy(v) ==
    CASE v.t = "none" -> FALSE
      [] v.t = "str" -> v.s # ""
      [] v.t = "num" -> v.n # 0
      [] OTHER -> FALSE

RequiredFields == {"price_per_night", "address", "zone"}

AllTruthy(d, fields) == \A f \in fields : Truthy(DictGet(d, f))

\* any(data.get(field) for field in required_fields)
AnyTruthy(d, fields) == \E f \in fields : Truthy(DictGet(d, f))

\* the dicts validate_apartment_data is given
ValidatorInputs ==
    [title : {PyAbsent, PyNone, PyStr(""), PyStr("Studio")},
     price_per_night : {PyNone, PyNum(0), PyNum(120)},
     address : {PyAbsent, PyNone, PyStr(""), PyStr("Rue A")},
     zone : {PyNone, PyStr(""), PyStr("Unknown")}]

\* "if not data.get('title'): return False"
CheckTitle ==
    /\ vpc = "title"
    /\ IF ~Truthy(DictGet(data, "title"))
       THEN /\ valid' = FALSE
            /\ vpc' = "returned"
       ELSE /\ vpc' = "required"
            /\ UNCHANGED valid
    /\ UNCHANGED <<runVars, discVars, extVars, data>>

\* "if not any(...): return False", else "return True"
CheckRequired ==
    /\ vpc = "required"
    /\ valid' = AnyTruthy(data, RequiredFields)
    /\ vpc' = "returned"
    /\ UNCHANGED <<runVars, discVars, extVars, data>>

InitValidate ==
    /\ OrchIdle
    /\ pc = [w \in Workers |-> "idle"]
    /\ WorkersIdle
    /\ DiscIdle
    /\ vpc = "title"
    /\ data \in ValidatorInputs
    /\ valid = FALSE
    /\ ExtIdle

NextValidate ==
    \/ CheckTitle
    \/ CheckRequired

SpecValidate == InitValidate /\ [][NextValidate]_vars

(* ------------------- the threaded run on a failing file system --------- *)
MaxIoErrors == 2

AfterIoErrorAborts(retpc) ==
    CASE retpc = "reset" -> "finally"
      [] retpc = "finally" -> "finally"
      [] retpc = "quit" -> "failed"
      [] OTHER -> retpc

\* where an exception raised by save_to_csv takes worker_thread: inside the
\* loop it is caught by "except Exception" and the loop continues; inside
\* the except clause the finally clause still runs; inside the finally
\* clause it ends the worker before driver.quit()
AfterIoError(retpc) ==
    CASE retpc = "reset" -> "loop"
      [] retpc = "finally" -> "finally"
      [] retpc = "quit" -> "failed"
      [] OTHER -> retpc

\* a row cut short by a write that failed part-way
TruncatedLine(cells, w, k, url) ==
    [kind |-> "T", cells |-> SubSeq(cells, 1, 1), w |-> w, k |-> k, url |-> url]

\* an OSError raised by open(), writeheader(), writerow() or the close of the
\* file inside save_to_csv: what was written stays in the file (a failing
\* writerow may leave a part of its row), the with blocks release csv_lock
\* and the exception reaches worker_thread
IoError(w) ==
    /\ io_budget > 0
    /\ InLock(w)
    /\ io_budget' = io_budget - 1
    /\ io_failed' = io_failed \cup {[w |-> w, k |-> ncall[w], at |-> idx[w], from |-> ret[w]]}
    /\ \E part \in BOOLEAN :
         file' = IF part /\ pc[w] = "s_row" /\ rowi[w] <= Len(data_list[w])
                 THEN [file EXCEPT !.lines =
                         Append(@, TruncatedLine(
                                     RowFor(Item(data_list[w][rowi[w]]), fieldnames[w]),
                                     w, ncall[w], data_list[w][rowi[w]].url))]
                 ELSE file
    /\ csv_lock' = IF csv_lock = w THEN 0 ELSE csv_lock
    /\ pc' = [pc EXCEPT ![w] = AfterIoError(ret[w])]
    /\ UNCHANGED <<discVars, valVars, listVars, cityVars, wifiVars, newVars, disc_session, ghostVars,
                   orchVars,
                   chunk, idx, batch, processed, interrupted, saveVars>>

InitIO ==
    /\ \E m \in 0..MaxUrls : property_urls = UrlList(m)
    /\ num_threads \in 1..MaxThreads
    /\ batch_size \in 1..MaxBatch
    /\ url_chunks = << >>
    /\ ci = 0
    /\ opc = "begin"
    /\ reported = << >>
    /\ pc = [w \in Workers |-> "idle"]
    /\ WorkersIdle
    /\ DiscIdle
    /\ ValIdle
    /\ ListIdle
    /\ disc_session = "closed"
    /\ io_budget = MaxIoErrors
    /\ io_failed = {}
    /\ CityIdle
    /\ WifiIdle
    /\ NewIdle

NextIO ==
    \/ NoProperties
    \/ ChunkStep
    \/ Submit
    \/ AsCompleted
    \/ Return
    \/ \E w \in Workers : StartWorker(w)
    \/ \E w \in Workers : Iterate(w)
    \/ \E w \in Workers : ResetBatch(w)
    \/ \E w \in Workers : FinallyFlush(w)
    \/ \E w \in Workers : QuitDriver(w)
    \/ \E w \in Workers : SaveStep(w)
    \/ \E w \in Workers : IoError(w)

SpecIO == InitIO /\ [][NextIO]_vars

(* -------------------- BookingApartmentScraper.scrape_city -------------- *)
MaxLinks == 3

MaxCityBatch == 2

\* config.incremental_save as main() sets it
incremental_save == TRUE

\* everything but the city scraper
notCityVars == <<runVars, discVars, valVars, listVars, envVars, ghostVars, wifiVars, newVars>>

\* all_links[i:i + batch_size]
CityBatch == SubSeq(all_links, city_i + 1, Min(city_i + city_batch_size, Len(all_links)))

\* "if not all_links: return []"
NoListings ==
    /\ cpc = "links"
    /\ all_links = << >>
    /\ cpc' = "returned"
    /\ UNCHANGED <<notCityVars, all_links, city_batch_size, city_i, city_j, batch_results,
                   city_file, save_log>>

\* one turn of "for i in range(0, len(all_links), batch_size)" up to
\* "batch_results = []", or the end of that loop and "return []"
BeginBatch ==
    /\ cpc \in {"links", "batch"}
    /\ all_links # << >>
    /\ IF city_i < Len(all_links)
       THEN /\ batch_results' = << >>
            /\ city_j' = 0
            /\ cpc' = "listing"
       ELSE /\ cpc' = "returned"
            /\ UNCHANGED <<batch_results, city_j>>
    /\ UNCHANGED <<notCityVars, all_links, city_batch_size, city_i, city_file, save_log>>

\* one turn of "for j, url in enumerate(batch)": _scrape_single_listing gives
\* an apartment, gives None, or the retries end with an exception
ScrapeListing ==
    /\ cpc = "listing"
    /\ city_j < Len(CityBatch)
    /\ \E out \in {"apartment", "none", "raise"} :
         batch_results' = IF out = "apartment"
                          THEN Append(batch_results, CityBatch[city_j + 1])
                          ELSE batch_results
    /\ city_j' = city_j + 1
    /\ UNCHANGED <<notCityVars, all_links, city_batch_size, city_i, cpc, city_file, save_log>>

\* "if self.config.incremental_save and batch_results:" after the inner loop
EndBatch ==
    /\ cpc = "listing"
    /\ city_j = Len(CityBatch)
    /\ cpc' = IF incremental_save /\ batch_results # << >> THEN "save" ELSE "next"
    /\ UNCHANGED <<notCityVars, all_links, city_batch_size, city_i, city_j, batch_results,
                   city_file, save_log>>

\* the lines _save_to_csv_incremental has appended when it stops after `rows`
\* rows of the batch
CityAppend(f, rows) ==
    [exists |-> TRUE,
     lines |-> f.lines \o (IF f.exists THEN << >> ELSE <<"header">>)
                       \o SubSeq(batch_results, 1, rows)]

\* _save_to_csv_incremental(batch_results, output_path): the batch is
\* appended, or open() raises, or a writerow raises after some rows; the
\* except clause logs the exception and the method returns
SaveIncremental ==
    /\ cpc = "save"
    /\ \/ /\ city_file' = CityAppend(city_file, Len(batch_results))
          /\ save_log' = Append(save_log, [urls |-> batch_results, ok |-> TRUE])
       \/ /\ city_file' = city_file
          /\ save_log' = Append(save_log, [urls |-> batch_results, ok |-> FALSE])
       \/ \E rows \in 0..(Len(batch_results) - 1) :
            /\ city_file' = CityAppend(city_file, rows)
            /\ save_log' = Append(save_log, [urls |-> batch_results, ok |-> FALSE])
    /\ cpc' = "next"
    /\ UNCHANGED <<notCityVars, all_links, city_batch_size, city_i, city_j, batch_results>>

\* the loop variable moves on by batch_size
NextBatch ==
    /\ cpc = "next"
    /\ city_i' = city_i + city_batch_size
    /\ cpc' = "batch"
    /\ UNCHANGED <<notCityVars, all_links, city_batch_size, city_j, batch_results,
                   city_file, save_log>>

InitCity ==
    /\ OrchIdle
    /\ pc = [w \in Workers |-> "idle"]
    /\ WorkersIdle
    /\ DiscIdle
    /\ ValIdle
    /\ ListIdle
    /\ EnvIdle
    /\ cpc = "links"
    /\ \E m \in 0..MaxLinks : all_links = UrlList(m)
    /\ city_batch_size \in 1..MaxCityBatch
    /\ city_i = 0
    /\ city_j = 0
    /\ batch_results = << >>
    /\ city_file = NoFile
    /\ save_log = << >>
    /\ WifiIdle
    /\ NewIdle

NextCity ==
    \/ NoListings
    \/ BeginBatch
    \/ ScrapeListing
    \/ EndBatch
    \/ SaveIncremental
    \/ NextBatch

SpecCity == InitCity /\ [][NextCity]_vars

(* ------------- save_to_csv of booking_wifi_score_scraper.py ------------ *)
MaxWifiCalls == 2

MaxWifiBatch == 2

\* get_all_possible_fields() of the wifi scraper
WifiFields ==
    << "property_id", "scrape_timestamp", "property_url", "category",
       "general_review", "general_review_count", "wifi_score", "min_price",
       "max_price", "latitude", "longitude", "address", "zone", "city", "wifi_speed" >>

\* the else branch of the wifi scraper's row loop
WifiDefaultFor(field) ==
    IF field \in {"category", "address", "zone", "city", "wifi_speed"} THEN ""
    ELSE IF field \in {"latitude", "longitude"} THEN ""
    ELSE "0"

\* the row dict of one item, in the order of fieldnames
WifiRowFor(item) ==
    [k \in 1..Len(WifiFields) |->
        IF WifiFields[k] \in DOMAIN item /\ item[WifiFields[k]] # NoneVal
        THEN item[WifiFields[k]]
        ELSE WifiDefaultFor(WifiFields[k])]

\* a record with every field scraped
WifiFullItem ==
    [f \in Range(WifiFields) |->
        CASE f = "property_url" -> "u1"
          [] f \in {"category", "address", "zone", "city", "wifi_speed"} -> "t"
          [] OTHER -> "7"]

\* the records a caller may hand over: complete, with None values, and with
\* keys left out
WifiItems ==
    {WifiFullItem,
     [f \in Range(WifiFields) |->
        IF f \in {"property_id", "scrape_timestamp", "property_url"}
        THEN WifiFullItem[f] ELSE NoneVal],
     [f \in {"property_id", "category", "wifi_score"} |-> WifiFullItem[f]],
     [f \in Range(WifiFields) |-> IF f = "property_url" THEN NoneVal ELSE WifiFullItem[f]]}

WifiBatches == UNION {[1..n -> WifiItems] : n \in 0..MaxWifiBatch}

\* everything but the wifi scraper's writer
notWifiVars == <<runVars, discVars, valVars, listVars, envVars, ghostVars, cityVars, newVars>>

\* save_to_csv(data_list, filename) up to the header: "if not data_list:
\* return", the existence check, the open and the writeheader of a new file
WifiCall ==
    /\ wpc = "caller"
    /\ wifi_calls < MaxWifiCalls
    /\ wifi_calls' = wifi_calls + 1
    /\ \E items \in WifiBatches :
         /\ wifi_data_list' = items
         /\ IF items = << >>
            THEN UNCHANGED <<wpc, wifi_file>>
            ELSE /\ wpc' = "rows"
                 /\ wifi_file' = IF wifi_file.exists THEN wifi_file
                                 ELSE [exists |-> TRUE,
                                       lines |-> <<[kind |-> "H", cells |-> WifiFields,
                                                    item |-> << >>]>>]
    /\ wifi_rowi' = 1
    /\ UNCHANGED notWifiVars

\* one turn of "for item in data_list"
WifiWriteRow ==
    /\ wpc = "rows"
    /\ wifi_rowi <= Len(wifi_data_list)
    /\ wifi_file' = [wifi_file EXCEPT !.lines =
                       Append(@, [kind |-> "R",
                                  cells |-> WifiRowFor(wifi_data_list[wifi_rowi]),
                                  item |-> wifi_data_list[wifi_rowi]])]
    /\ wifi_rowi' = wifi_rowi + 1
    /\ UNCHANGED <<notWifiVars, wpc, wifi_calls, wifi_data_list>>

\* the end of the with blocks and the return
WifiReturn ==
    /\ wpc = "rows"
    /\ wifi_rowi > Len(wifi_data_list)
    /\ wpc' = "caller"
    /\ UNCHANGED <<notWifiVars, wifi_calls, wifi_data_list, wifi_rowi, wifi_file>>

InitWifi ==
    /\ OrchIdle
    /\ pc = [w \in Workers |-> "idle"]
    /\ WorkersIdle
    /\ DiscIdle
    /\ ValIdle
    /\ ListIdle
    /\ EnvIdle
    /\ CityIdle
    /\ NewIdle
    /\ wpc = "caller"
    /\ wifi_calls = 0
    /\ wifi_data_list = << >>
    /\ wifi_rowi = 1
    /\ wifi_file = NoFile

NextWifi ==
    \/ WifiCall
    \/ WifiWriteRow
    \/ WifiReturn

SpecWifi == InitWifi /\ [][NextWifi]_vars

(* ------------- the whole threaded run, seen from the main thread ------- *)
\* everything the main thread's own steps leave alone
notMainVars == <<discVars, valVars, listVars, cityVars, wifiVars, newVars, ghostVars, io_budget,
                 io_failed, workVars, saveVars, csv_lock, file>>

\* webdriver.Chrome(...) of scrape_property_urls: the session is created, or
\* the call raises and scrape_booking_properties ends with that exception
OpenDiscovery ==
    /\ opc = "discover"
    /\ disc_session = "none"
    /\ \E ok \in BOOLEAN :
         IF ok THEN /\ disc_session' = "open"
                    /\ opc' = opc
               ELSE /\ opc' = "raised"
                    /\ UNCHANGED disc_session
    /\ UNCHANGED <<notMainVars, property_urls, num_threads, batch_size, url_chunks, ci, reported>>

AfterDiscoveryLeaked == "open"

\* the state of the discovery session after "finally: driver.quit()"
AfterDiscovery == "closed"

\* the search pages are read, the finally clause quits the session and the
\* list is returned
CloseDiscovery ==
    /\ opc = "discover"
    /\ disc_session = "open"
    /\ \E m \in 0..MaxUrls : property_urls' = UrlList(m)
    /\ disc_session' = AfterDiscovery
    /\ opc' = "begin"
    /\ UNCHANGED <<notMainVars, num_threads, batch_size, url_chunks, ci, reported>>

\* the workers handed to the executor so far (ci counts the submit loop)
Running == 1..ci

\* KeyboardInterrupt: Python raises it in the main thread only, here inside
\* the "with ThreadPoolExecutor" block; the block's exit then waits for the
\* workers (shutdown(wait=True)), which are not told anything
StopSignal ==
    /\ opc \in {"submit", "wait"}
    /\ opc' = "stopping"
    /\ UNCHANGED <<notMainVars, disc_session, property_urls, num_threads, batch_size,
                   url_chunks, ci, reported>>

\* every worker has ended: the with block is left and KeyboardInterrupt
\* leaves scrape_booking_properties
StopJoin ==
    /\ opc = "stopping"
    /\ \A w \in Running : Finished(w)
    /\ opc' = "raised"
    /\ UNCHANGED <<notMainVars, disc_session, property_urls, num_threads, batch_size,
                   url_chunks, ci, reported>>

InitMain ==
    /\ property_urls = << >>
    /\ num_threads \in 1..MaxThreads
    /\ batch_size \in 1..MaxBatch
    /\ url_chunks = << >>
    /\ ci = 0
    /\ opc = "discover"
    /\ reported = << >>
    /\ pc = [w \in Workers |-> "idle"]
    /\ WorkersIdle
    /\ DiscIdle
    /\ ValIdle
    /\ ListIdle
    /\ CityIdle
    /\ WifiIdle
    /\ NewIdle
    /\ disc_session = "none"
    /\ io_budget = 0
    /\ io_failed = {}

NextMain ==
    \/ OpenDiscovery
    \/ CloseDiscovery
    \/ NoProperties
    \/ ChunkStep
    \/ Submit
    \/ AsCompleted
    \/ Return
    \/ StopSignal
    \/ StopJoin
    \/ \E w \in Workers : StartWorker(w)
    \/ \E w \in Workers : Iterate(w)
    \/ \E w \in Workers : ResetBatch(w)
    \/ \E w \in Workers : FinallyFlush(w)
    \/ \E w \in Workers : QuitDriver(w)
    \/ \E w \in Workers : SaveStep(w)

SpecMain == InitMain /\ [][NextMain]_vars

(* --------------- BookingApartmentScraper._scrape_single_listing -------- *)
\* words that clean_latin_text's pattern removes entirely (non-Latin script)
NonLatinTokens == {"nl1", "nl2"}

\* str.lower() of a word
Lower(tok) ==
    CASE tok = "Studio" -> "studio"
      [] tok = "Hotel" -> "hotel"
      [] tok = "Loft" -> "loft"
      [] tok = "Riad" -> "riad"
      [] tok = "Spacious" -> "spacious"
      [] OTHER -> tok

\* PropertyClassifier.EXCLUDED_KEYWORDS (the spellings with accents left out)
EXCLUDED_KEYWORDS ==
    {"hotel", "riad", "villa", "palace", "resort", "lodge", "hostel", "auberge",
     "guest house", "boutique", "spa", "club", "camping", "dar ", "atelier", "pension"}

\* PropertyClassifier.APARTMENT_INDICATORS (the spellings with accents left out)
APARTMENT_INDICATORS ==
    {"apartment", "appartement", "studio", "flat", "appart", "logement",
     "residence", "suite", "loft"}

\* the strings of which "keyword in word" holds: the word itself and the
\* keywords inside it
Substrings(word) ==
    CASE word = "spacious" -> {"spacious", "spa"}
      [] OTHER -> {word}

\* "keyword in text.lower()" for some keyword of the list
ContainsAny(toks, keywords) ==
    \E k \in 1..Len(toks) : Substrings(Lower(toks[k])) \cap keywords # {}

\* the indicators looked for before the excluded keywords
is_apartment_indicator_first(t, source) ==
    IF ~IsTrue(t) THEN FALSE
    ELSE IF ContainsAny(t.toks, APARTMENT_INDICATORS) THEN TRUE
    ELSE IF ContainsAny(t.toks, EXCLUDED_KEYWORDS) THEN FALSE
    ELSE source # << >> /\ ContainsAny(source, APARTMENT_INDICATORS)

\* PropertyClassifier.is_apartment(title, page_source)
is_apartment(t, source) ==
    IF ~IsTrue(t) THEN FALSE
    ELSE IF ContainsAny(t.toks, EXCLUDED_KEYWORDS) THEN FALSE
    ELSE IF ContainsAny(t.toks, APARTMENT_INDICATORS) THEN TRUE
    ELSE source # << >> /\ ContainsAny(source, APARTMENT_INDICATORS)

\* DataValidator.clean_latin_text(text)
clean_latin_text(v) ==
    IF ~IsTrue(v) THEN v
    ELSE Text(SelectSeq(v.toks, LAMBDA tok : tok \notin NonLatinTokens))

\* address parts that hold "Arrondissement" or "District"
DistrictParts == {"Arrondissement Anfa", "District Gueliz"}

\* GeocodeService.extract_zone(address), the address kept as its comma-separated parts
extract_zone(a) ==
    IF ~IsTrue(a) THEN Text(<<"Unknown">>)
    ELSE LET parts == a.toks
             ks == {k \in 1..Len(parts) : parts[k] \in DistrictParts}
         IN  IF ks = {} THEN Text(<<"Unknown">>)
             ELSE LET k == CHOOSE i \in ks : \A j \in ks : i <= j
                  IN  IF k > 1 /\ parts[k - 1] # ""
                      THEN Text(<<parts[k - 1], "-", parts[k]>>)
                      ELSE Text(<<parts[k]>>)

Digits == {"0", "1", "2", "3", "4", "5", "6", "9"}

DigitVal(c) ==
    CASE c = "0" -> 0
      [] c = "1" -> 1
      [] c = "2" -> 2
      [] c = "3" -> 3
      [] c = "4" -> 4
      [] c = "5" -> 5
      [] c = "6" -> 6
      [] c = "9" -> 9

HasChar(chars, c) == \E k \in 1..Len(chars) : chars[k] = c

\* re.sub(r'[^\d.,]', '', price_text.replace(' ', ''))
PriceClean(chars) == SelectSeq(chars, LAMBDA c : c \in Digits \cup {".", ","})

PriceSeparatorsDropAll(chars) == SelectSeq(chars, LAMBDA c : c # ",")

\* the thousands / decimal separator rules of normalize_price
PriceSeparators(chars) ==
    IF HasChar(chars, ",") /\ HasChar(chars, ".")
    THEN SelectSeq(chars, LAMBDA c : c # ",")
    ELSE IF HasChar(chars, ",")
    THEN [k \in 1..Len(chars) |-> IF chars[k] = "," THEN "." ELSE chars[k]]
    ELSE chars

RECURSIVE NatOf(_)
\* the number a string of digits denotes
NatOf(digs) ==
    IF digs = << >> THEN 0
    ELSE NatOf(SubSeq(digs, 1, Len(digs) - 1)) * 10 + DigitVal(digs[Len(digs)])

\* float(text) of a text of digits and dots: the value in thousandths, or a
\* ValueError (ok = FALSE) for no digit or more than one dot
ParseFloat(chars) ==
    LET dots == {k \in 1..Len(chars) : chars[k] = "."}
    IN  IF Cardinality(dots) > 1 \/ Cardinality(dots) = Len(chars)
        THEN [ok |-> FALSE, n |-> 0]
        ELSE IF dots = {}
        THEN [ok |-> TRUE, n |-> NatOf(chars) * 1000]
        ELSE LET d == CHOOSE k \in dots : TRUE
                 frac == SubSeq(chars, d + 1, Len(chars)) \o <<"0", "0", "0">>
             IN  [ok |-> TRUE,
                  n |-> NatOf(SubSeq(chars, 1, d - 1)) * 1000 + NatOf(SubSeq(frac, 1, 3))]

\* DataValidator.normalize_price(price_text): a float (in thousandths) or None
normalize_price(v) ==
    IF ~IsTrue(v) THEN PyNone
    ELSE LET f == ParseFloat(PriceSeparators(PriceClean(v.toks)))
         IN  IF f.ok THEN PyNum(f.n) ELSE PyNone

\* the latitude / longitude texts a coordinate pattern may capture, with the
\* float they denote in tenths of a degree (ok = FALSE: float() raises)
CoordFloat(s) ==
    CASE s = "33.5" -> [ok |-> TRUE, n |-> 335]
      [] s = "-7.6" -> [ok |-> TRUE, n |-> 0 - 76]
      [] s = "95.0" -> [ok |-> TRUE, n |-> 950]
      [] s = "0" -> [ok |-> TRUE, n |-> 0]
      [] s = "10" -> [ok |-> TRUE, n |-> 100]
      [] s = "45.5" -> [ok |-> TRUE, n |-> 455]
      [] s = "-73.6" -> [ok |-> TRUE, n |-> 0 - 736]
      [] s = "90" -> [ok |-> TRUE, n |-> 900]
      [] s = "-90" -> [ok |-> TRUE, n |-> 0 - 900]
      [] s = "90.1" -> [ok |-> TRUE, n |-> 901]
      [] s = "-90.1" -> [ok |-> TRUE, n |-> 0 - 901]
      [] s = "91" -> [ok |-> TRUE, n |-> 910]
      [] s = "180" -> [ok |-> TRUE, n |-> 1800]
      [] s = "-180" -> [ok |-> TRUE, n |-> 0 - 1800]
      [] s = "180.1" -> [ok |-> TRUE, n |-> 1801]
      [] s = "-180.1" -> [ok |-> TRUE, n |-> 0 - 1801]
      [] OTHER -> [ok |-> FALSE, n |-> 0]

\* the range test with the bounds left out
validate_coordinates_open(lat, lng) ==
    LET a == CoordFloat(lat)
        b == CoordFloat(lng)
    IN  IF a.ok /\ b.ok /\ 0 - 900 < a.n /\ a.n < 900 /\ 0 - 1800 < b.n /\ b.n < 1800
        THEN <<PyNum(a.n), PyNum(b.n)>>
        ELSE <<PyNone, PyNone>>

\* DataValidator.validate_coordinates(lat, lng)
validate_coordinates(lat, lng) ==
    LET a == CoordFloat(lat)
        b == CoordFloat(lng)
    IN  IF a.ok /\ b.ok /\ 0 - 900 <= a.n /\ a.n <= 900 /\ 0 - 1800 <= b.n /\ b.n <= 1800
        THEN <<PyNum(a.n), PyNum(b.n)>>
        ELSE <<PyNone, PyNone>>

RECURSIVE JoinTokens(_)
\* the str a token list stands for
JoinTokens(toks) ==
    IF toks = << >> THEN ""
    ELSE IF Len(toks) = 1 THEN toks[1]
    ELSE toks[1] \o " " \o JoinTokens(Tail(toks))

\* a scraped text as the value asdict() carries
ToPy(v) == IF v.t = "none" THEN PyNone ELSE PyStr(JoinTokens(v.toks))

\* DataValidator.validate_apartment_data(data) as one expression
validate_apartment_data(d) ==
    /\ Truthy(DictGet(d, "title"))
    /\ AnyTruthy(d, RequiredFields)

\* what a strategy of a cascade did: it raised, or it returned a text or None
Raised == [kind |-> "raise", v |-> NoText]

Returned(v) == [kind |-> "value", v |-> v]

\* element.text.strip() of the header a title selector may find
TitleTexts ==
    {<< >>, <<"Studio", "Anfa">>, <<"Hotel", "Atlas">>, <<"Maison", "Bleue">>, <<"nl1">>}

\* what _get_price_from_elements and _get_price_from_source may return
PriceTexts ==
    {<<"1", "2", "0">>, <<"E", " ", "1", ",", "5">>, <<"1", ",", "2", ",", "5">>,
     <<"1", ".", "2", ",", "5">>, <<"0">>}

\* element.text.strip() of the element an address selector may find
AddressTexts ==
    {<< >>, <<"Maarif", "Arrondissement Anfa", "Casablanca">>,
     <<"District Gueliz", "Marrakech">>, <<"Rue A", "Rabat">>, <<"nl2">>}

\* the groups the first matching coordinate pattern captures, << >> for no match
CoordMatches == {<< >>, <<"33.5", "-7.6">>, <<"95.0", "0">>, <<"-", "33.5">>, <<"0", "0">>}

PageSources == {<< >>, <<"apartment">>}

\* len(title_selectors), len(strategies), len(address_selectors)
NumTitleSelectors == 4

NumPriceStrategies == 2

NumAddressSelectors == 5

StopsCascadeNever(v) == FALSE

\* "if title: break", "if price: return ...", "if address: return address"
StopsCascade(v) == IsTrue(v)

\* everything but the listing scraper
notListVars == <<runVars, discVars, valVars, envVars, ghostVars, cityVars, wifiVars, newVars>>

\* "return None" of _scrape_single_listing
ReturnNone ==
    /\ listing' = [some |-> FALSE, rec |-> << >>]
    /\ lpc' = "returned"

\* driver.get(url) and the wait for the h1: an exception or a timeout returns
\* None, else page_source is read and the title cascade begins
LoadListing ==
    /\ lpc = "get"
    /\ \E out \in {"raise", "timeout", "ok"}, src \in PageSources :
         IF out = "ok"
         THEN /\ page_source' = src
              /\ cascade' = "title"
              /\ lpc' = "title"
              /\ UNCHANGED listing
         ELSE /\ ReturnNone
              /\ UNCHANGED <<page_source, cascade>>
    /\ UNCHANGED <<notListVars, tried, title, price, address, coords>>

\* one turn of "for selector in title_selectors"
TryTitle ==
    /\ lpc = "title"
    /\ Len(tried) < NumTitleSelectors
    /\ \E out \in {Raised} \cup {Returned(Text(t)) : t \in TitleTexts} :
         /\ tried' = Append(tried, out)
         /\ title' = IF out.kind = "value" THEN out.v ELSE title
         /\ lpc' = IF (out.kind = "value" /\ StopsCascade(out.v))
                      \/ Len(tried) + 1 = NumTitleSelectors
                   THEN "title_done" ELSE "title"
    /\ UNCHANGED <<notListVars, page_source, cascade, price, address, coords, listing>>

\* "if not title: return None", "if not is_apartment(...): return None"
ClassifyTitle ==
    /\ lpc = "title_done"
    /\ IF ~IsTrue(title) \/ ~is_apartment(title, page_source)
       THEN /\ ReturnNone
            /\ UNCHANGED <<cascade, tried>>
       ELSE /\ lpc' = "price"
            /\ cascade' = "price"
            /\ tried' = << >>
            /\ UNCHANGED listing
    /\ UNCHANGED <<notListVars, page_source, title, price, address, coords>>

\* one turn of "for strategy in strategies" of _extract_price, or its
\* "return None" after the last strategy
TryPrice ==
    /\ lpc = "price"
    /\ Len(tried) < NumPriceStrategies
    /\ \E out \in {Raised, Returned(NoText)} \cup {Returned(Text(t)) : t \in PriceTexts} :
         /\ tried' = Append(tried, out)
         /\ IF out.kind = "value" /\ StopsCascade(out.v)
            THEN /\ price' = normalize_price(out.v)
                 /\ lpc' = "price_done"
            ELSE IF Len(tried) + 1 = NumPriceStrategies
            THEN /\ price' = PyNone
                 /\ lpc' = "price_done"
            ELSE /\ lpc' = "price"
                 /\ UNCHANGED price
    /\ UNCHANGED <<notListVars, page_source, cascade, title, address, coords, listing>>

\* the call of _extract_address
BeginAddress ==
    /\ lpc = "price_done"
    /\ lpc' = "address"
    /\ cascade' = "address"
    /\ tried' = << >>
    /\ UNCHANGED <<notListVars, page_source, title, price, address, coords, listing>>

\* one turn of "for selector in address_selectors", or the "return None"
\* after the last selector
TryAddress ==
    /\ lpc = "address"
    /\ Len(tried) < NumAddressSelectors
    /\ \E out \in {Raised} \cup {Returned(Text(t)) : t \in AddressTexts} :
         /\ tried' = Append(tried, out)
         /\ IF out.kind = "value" /\ StopsCascade(out.v)
            THEN /\ address' = out.v
                 /\ lpc' = "address_done"
            ELSE IF Len(tried) + 1 = NumAddressSelectors
            THEN /\ address' = NoText
                 /\ lpc' = "address_done"
            ELSE /\ lpc' = "address"
                 /\ UNCHANGED address
    /\ UNCHANGED <<notListVars, page_source, cascade, title, price, coords, listing>>

\* lat, lng = self._extract_coordinates(page_source)
ExtractCoordinates ==
    /\ lpc = "address_done"
    /\ \E m \in CoordMatches :
         LET c == IF m = << >> THEN <<PyNone, PyNone>> ELSE validate_coordinates(m[1], m[2])
         IN  /\ coords' = c
             /\ lpc' = IF ~IsTrue(address) /\ Truthy(c[1]) /\ Truthy(c[2])
                       THEN "geocode" ELSE "build"
    /\ UNCHANGED <<notListVars, page_source, cascade, tried, title, price, address, listing>>

\* address = self.geocoder.reverse_geocode(lat, lng): display_name or None
ReverseGeocode ==
    /\ lpc = "geocode"
    /\ \E a \in {NoText, Text(<<"Maarif", "Arrondissement Anfa", "Casablanca">>)} :
         address' = a
    /\ lpc' = "build"
    /\ UNCHANGED <<notListVars, page_source, cascade, tried, title, price, coords, listing>>

\* the fields of ApartmentData the model keeps, as asdict() gives them
ApartmentData ==
    [title |-> ToPy(clean_latin_text(title)),
     price_per_night |-> price,
     address |-> ToPy(clean_latin_text(address)),
     zone |-> ToPy(clean_latin_text(extract_zone(address))),
     latitude |-> coords[1],
     longitude |-> coords[2]]

\* the record is built and returned if validate_apartment_data accepts it
BuildListing ==
    /\ lpc = "build"
    /\ IF validate_apartment_data(ApartmentData)
       THEN /\ listing' = [some |-> TRUE, rec |-> ApartmentData]
            /\ lpc' = "returned"
       ELSE ReturnNone
    /\ UNCHANGED <<notListVars, page_source, cascade, tried, title, price, address, coords>>

InitListing ==
    /\ OrchIdle
    /\ pc = [w \in Workers |-> "idle"]
    /\ WorkersIdle
    /\ DiscIdle
    /\ ValIdle
    /\ lpc = "get"
    /\ page_source = << >>
    /\ cascade = "none"
    /\ tried = << >>
    /\ title = NoText
    /\ price = PyNone
    /\ address = NoText
    /\ coords = <<PyNone, PyNone>>
    /\ listing = [some |-> FALSE, rec |-> << >>]
    /\ EnvIdle
    /\ CityIdle
    /\ WifiIdle
    /\ NewIdle

NextListing ==
    \/ LoadListing
    \/ TryTitle
    \/ ClassifyTitle
    \/ TryPrice
    \/ BeginAddress
    \/ TryAddress
    \/ ExtractCoordinates
    \/ ReverseGeocode
    \/ BuildListing

SpecListing == InitListing /\ [][NextListing]_vars

(* ------- scrape_property_urls of the reviews and wifi scrapers --------- *)
\* everything the step-by-step models below leave alone
baseVars == <<runVars, discVars, valVars, listVars, envVars, ghostVars, cityVars, wifiVars>>

oldVars == <<baseVars, lastVars>>

BaseIdle ==
    /\ OrchIdle
    /\ pc = [w \in Workers |-> "idle"]
    /\ WorkersIdle
    /\ DiscIdle
    /\ ValIdle
    /\ ListIdle
    /\ EnvIdle
    /\ CityIdle
    /\ WifiIdle

OldIdle ==
    /\ BaseIdle
    /\ LastIdle

\* the destinations handed to scrape_property_urls
MaxQueries == 2

\* the largest max_links handed to it
MaxLinksCap == 2

notScrollVars == <<oldVars, moreVars, loadVars, backupVars, pureVars>>

\* max_scroll_attempts = 10
max_scroll_attempts == 10

\* the href attributes the result pages carry: two listings, one of them
\* under two query strings, a link that is no listing, and a missing href
ScrollHrefs == {<<"h1">>, <<"h1", "?", "a">>, <<"h2", "?", "a">>, <<"x1", "?", "a">>, << >>}

\* href and '/hotel/' in href
IsHotelHref(href) == href # << >> /\ Head(href) \in {"h1", "h2"}

\* the link lists one find_elements call may give
LinkLists == {<<a>> : a \in ScrollHrefs} \cup {<<a, b>> : a, b \in ScrollHrefs}

AtCapLate(urls, cap) == Len(urls) > cap

\* len(all_urls) >= max_links
AtCap(urls, cap) == Len(urls) >= cap

RECURSIVE ScrollCollect(_, _, _, _, _)
\* for link in links: the cap check, the '/hotel/' filter, the canonical
\* form and the append; skipped tells whether the cap ended the loop
ScrollCollect(links, urls, canon, cap, skipped) ==
    IF links = << >> THEN [urls |-> urls, seen |-> canon, skipped |-> skipped]
    ELSE IF AtCap(urls, cap) THEN [urls |-> urls, seen |-> canon, skipped |-> TRUE]
    ELSE LET href == Head(links)
         IN  IF IsHotelHref(href) /\ SplitHead(href) \notin canon
             THEN ScrollCollect(Tail(links), Append(urls, href),
                                canon \cup {SplitHead(href)}, cap, skipped)
             ELSE ScrollCollect(Tail(links), urls, canon, cap, skipped)

\* for search_url in urls: the cap check, driver.get and the first scroll;
\* an exception of the driver is caught by the function's handler
Navigate ==
    /\ rpc = "query"
    /\ IF r_query > MaxQueries \/ AtCap(r_urls, max_links)
       THEN /\ rpc' = "return"
            /\ UNCHANGED <<scroll_attempts, r_signal>>
       ELSE \/ /\ rpc' = "loop"
               /\ scroll_attempts' = 0
               /\ r_signal' = "none"
            \/ /\ rpc' = "return"
               /\ r_signal' = "error"
               /\ UNCHANGED scroll_attempts
    /\ UNCHANGED <<notScrollVars, r_query, max_links, r_urls, r_seen, r_skipped, r_found>>

\* one pass of the while loop up to "Scroll down": the loop test, the cap
\* check, the selectors, and the page-text heuristics when no link was found
FindLinks ==
    /\ rpc = "loop"
    /\ IF scroll_attempts >= max_scroll_attempts \/ AtCap(r_urls, max_links)
       THEN /\ rpc' = "query"
            /\ r_query' = r_query + 1
            /\ UNCHANGED <<scroll_attempts, r_urls, r_seen, r_signal, r_skipped>>
       ELSE /\ scroll_attempts' = scroll_attempts + 1
            /\ \/ \E links \in LinkLists :
                    LET c == ScrollCollect(links, r_urls, r_seen, max_links, FALSE)
                    IN  /\ r_urls' = c.urls
                        /\ r_seen' = c.seen
                        /\ r_skipped' = IF c.skipped THEN r_query ELSE r_skipped
                        /\ r_signal' = "none"
                        /\ rpc' = "scroll"
                        /\ UNCHANGED r_query
               \/ /\ r_signal' \in {"captcha", "blank"}
                  /\ rpc' = "scroll"
                  /\ UNCHANGED <<r_query, r_urls, r_seen, r_skipped>>
               \/ /\ r_signal' = "noresults"
                  /\ rpc' = "query"
                  /\ r_query' = r_query + 1
                  /\ UNCHANGED <<r_urls, r_seen, r_skipped>>
               \/ /\ r_signal' = "error"
                  /\ rpc' = "return"
                  /\ UNCHANGED <<r_query, r_urls, r_seen, r_skipped>>
    /\ UNCHANGED <<notScrollVars, max_links, r_found>>

\* the rest of the pass: the scroll, the "Load more" click, and the test that
\* gives up on a destination that gave nothing
ScrollMore ==
    /\ rpc = "scroll"
    /\ IF scroll_attempts > 3 /\ Len(r_urls) = 0
       THEN /\ rpc' = "query"
            /\ r_query' = r_query + 1
       ELSE /\ rpc' = "loop"
            /\ UNCHANGED r_query
    /\ UNCHANGED <<notScrollVars, max_links, scroll_attempts, r_urls, r_seen, r_signal,
                   r_skipped, r_found>>

\* finally: driver.quit(), then return all_urls
ReturnScroll ==
    /\ rpc = "return"
    /\ r_found' = r_urls
    /\ rpc' = "returned"
    /\ UNCHANGED <<notScrollVars, r_query, max_links, scroll_attempts, r_urls, r_seen,
                   r_signal, r_skipped>>

InitScroll ==
    /\ OldIdle
    /\ MoreIdle
    /\ LoadIdle
    /\ BackupIdle
    /\ PureIdle
    /\ rpc = "query"
    /\ r_query = 1
    /\ max_links \in 1..MaxLinksCap
    /\ scroll_attempts = 0
    /\ r_urls = << >>
    /\ r_seen = {}
    /\ r_signal = "none"
    /\ r_skipped = 0
    /\ r_found = << >>

NextScroll ==
    \/ Navigate
    \/ FindLinks
    \/ ScrollMore
    \/ ReturnScroll

SpecScroll == InitScroll /\ [][NextScroll]_vars

(* ------ scrape_property_urls of the threaded scraper, step by step ----- *)
\* the clicks on "more results" that are told apart; further ones count as
\* the last
MaxClicks == 3

notMoreVars == <<workVars, saveVars, csv_lock, file, discVars, valVars, listVars, envVars,
                 ghostVars, cityVars, wifiVars, scrollVars, loadVars, backupVars, pureVars,
                 lastVars, num_threads, batch_size, url_chunks, ci, reported>>

RECURSIVE MoreCollect(_, _)
\* for link in links: "if href", the canonical form and the append; seen
\* holds the canonical forms of the entries of all_urls
MoreCollect(links, urls) ==
    IF links = << >> THEN urls
    ELSE LET href == Head(links)
         IN  IF href # << >> /\ SplitHead(href) \notin {SplitHead(urls[k]) : k \in 1..Len(urls)}
             THEN MoreCollect(Tail(links), Append(urls, href))
             ELSE MoreCollect(Tail(links), urls)

\* for search_url in urls: driver.get(search_url) and the cookie banner
MoreNavigate ==
    /\ mpc = "get"
    /\ IF m_query > MaxQueries
       THEN mpc' = "return" /\ UNCHANGED clicks
       ELSE mpc' = "scroll" /\ clicks' = 0
    /\ UNCHANGED <<notMoreVars, property_urls, opc, m_query, m_urls, m_found>>

\* while True: scroll to the bottom of the page
MoreScroll ==
    /\ mpc = "scroll"
    /\ mpc' = "wait"
    /\ UNCHANGED <<notMoreVars, property_urls, opc, m_query, m_urls, clicks, m_found>>

\* wait up to 10 s for the "more results" control: it gets clickable and is
\* clicked, and the loop runs again, or the wait times out and the loop ends
WaitMore ==
    /\ mpc = "wait"
    /\ \/ /\ clicks' = Min(clicks + 1, MaxClicks)
          /\ mpc' = "scroll"
       \/ /\ mpc' = "extract"
          /\ UNCHANGED clicks
    /\ UNCHANGED <<notMoreVars, property_urls, opc, m_query, m_urls, m_found>>

\* links = driver.find_elements(...) and the loop over them
ExtractLinks ==
    /\ mpc = "extract"
    /\ \E links \in LinkLists : m_urls' = MoreCollect(links, m_urls)
    /\ m_query' = m_query + 1
    /\ mpc' = "get"
    /\ UNCHANGED <<notMoreVars, property_urls, opc, clicks, m_found>>

\* driver.get, execute_script, click or find_elements raises: the try has a
\* finally clause (driver.quit()) and no handler, and neither has the call in
\* scrape_booking_properties, so the exception ends the run
MoreFail ==
    /\ mpc \in {"get", "scroll", "wait", "extract"}
    /\ m_query <= MaxQueries
    /\ mpc' = "raised"
    /\ opc' = "raised"
    /\ UNCHANGED <<notMoreVars, property_urls, m_query, m_urls, clicks, m_found>>

\* return all_urls[:TEST_MAX_PROPERTIES], bound to property_urls by the caller
MoreReturn ==
    /\ mpc = "return"
    /\ m_found' = Limit(m_urls)
    /\ property_urls' = Limit(m_urls)
    /\ mpc' = "returned"
    /\ opc' = "begin"
    /\ UNCHANGED <<notMoreVars, m_query, m_urls, clicks>>

InitMore ==
    /\ property_urls = << >>
    /\ num_threads = 1
    /\ batch_size = 1
    /\ url_chunks = << >>
    /\ ci = 0
    /\ opc = "discover"
    /\ reported = << >>
    /\ pc = [w \in Workers |-> "idle"]
    /\ WorkersIdle
    /\ DiscIdle
    /\ ValIdle
    /\ ListIdle
    /\ EnvIdle
    /\ CityIdle
    /\ WifiIdle
    /\ ScrollIdle
    /\ LoadIdle
    /\ BackupIdle
    /\ PureIdle
    /\ LastIdle
    /\ mpc = "get"
    /\ m_query = 1
    /\ m_urls = << >>
    /\ clicks = 0
    /\ m_found = << >>

NextMore ==
    \/ MoreNavigate
    \/ MoreScroll
    \/ WaitMore
    \/ ExtractLinks
    \/ MoreFail
    \/ MoreReturn

SpecMore == InitMore /\ [][NextMore]_vars

\* the process keeps running: a step that can be taken is taken
SpecMoreLive == SpecMore /\ WF_vars(NextMore)

(* ------------- BookingApartmentScraper._load_all_listings -------------- *)
notLoadVars == <<oldVars, scrollVars, moreVars, backupVars, pureVars>>

\* max_pages = 50
max_pages == 50

\* the orders list(all_links) may give the elements of the set in
Orders(S) ==
    {s \in UNION {[1..n -> S] : n \in {Cardinality(S)}} : Range(s) = S}

\* one pass of the while loop: the page is fetched, the href attributes of
\* its title links are cut at '?' and merged into all_links
LoadPage ==
    /\ apc = "page"
    /\ IF offset >= max_pages * 25
       THEN /\ apc' = "return"
            /\ UNCHANGED <<offset, link_set, met_hrefs>>
       ELSE \/ /\ apc' = "return"
               /\ UNCHANGED <<offset, link_set, met_hrefs>>
            \/ \E hrefs \in SUBSET ScrollHrefs :
                 LET page_links == {SplitHead(h) : h \in hrefs \ {<< >>}}
                 IN  /\ met_hrefs' = met_hrefs \cup (hrefs \ {<< >>})
                     /\ link_set' = link_set \cup page_links
                     /\ IF Cardinality(link_set') = Cardinality(link_set)
                        THEN apc' = "return" /\ UNCHANGED offset
                        ELSE apc' = "page" /\ offset' = offset + 25
    /\ UNCHANGED <<notLoadVars, loaded>>

\* return list(all_links)
LoadReturn ==
    /\ apc = "return"
    /\ loaded' \in Orders(link_set)
    /\ apc' = "returned"
    /\ UNCHANGED <<notLoadVars, offset, link_set, met_hrefs>>

InitLoad ==
    /\ OldIdle
    /\ ScrollIdle
    /\ MoreIdle
    /\ BackupIdle
    /\ PureIdle
    /\ apc = "page"
    /\ offset = 0
    /\ link_set = {}
    /\ met_hrefs = {}
    /\ loaded = << >>

NextLoad ==
    \/ LoadPage
    \/ LoadReturn

SpecLoad == InitLoad /\ [][NextLoad]_vars

(* ---- scrape_all_properties_to_csv_single_threaded (backup scraper) ---- *)
\* batches written in one run
MaxBackupBatches == 2

\* properties in one batch
MaxBackupBatch == 2

notBackupVars == <<oldVars, scrollVars, moreVars, loadVars, pureVars>>

\* the field names met, in the order sorted() puts them in
BackupFieldOrder == <<"WiFi Speed", "address", "property_url", "staff">>

\* the dictionaries scrape_single_property_data may give, by their keys
BackupProps ==
    {[keys |-> ks, url |-> "p"] :
        ks \in {{"property_url"}, {"property_url", "address"},
                {"property_url", "WiFi Speed", "staff"}}}

BackupBatchesOf == UNION {[1..n -> BackupProps] : n \in 1..MaxBackupBatch}

\* the stores a run may find: none, a header alone, a header and one row
BackupStores ==
    {NoFile,
     [exists |-> TRUE, lines |-> <<HeaderLine(<<"address", "property_url">>, 0, 0)>>],
     [exists |-> TRUE, lines |-> <<HeaderLine(<<"address", "property_url">>, 0, 0),
                                   RowLine(<<"old", "old">>, 0, 0, "old")>>]}

\* sorted(list(all_fieldnames.union(existing_fieldnames)))
BackupFieldnames(props, existing) ==
    LET all_fieldnames == UNION {props[k].keys : k \in 1..Len(props)}
    IN  SelectSeq(BackupFieldOrder, LAMBDA f : f \in all_fieldnames \cup existing)

\* the cell of one field: the value, or the default of the field
BackupCell(prop, field) ==
    IF field \in prop.keys THEN "v"
    ELSE IF field = "property_url" THEN ""
    ELSE IF field \in {"category", "address", "zone", "city", "WiFi Speed"} THEN ""
    ELSE "0"

BackupRows(props, fields, k) ==
    [j \in 1..Len(props) |->
        RowLine([c \in 1..Len(fields) |-> BackupCell(props[j], fields[c])], 0, k, props[j].url)]

\* is_first_batch as save_batch_to_csv ends up with it: the argument, or
\* True when the file to read the header from does not exist
FirstBatch(is_first_batch, f) == is_first_batch \/ ~f.exists

\* save_batch_to_csv(properties_data, csv_filename, is_first_batch): the file
\* it leaves; k tags the lines with the batch that wrote them
save_batch_to_csv(props, f, is_first_batch, k) ==
    IF props = << >> THEN f
    ELSE LET existing == IF is_first_batch THEN {} ELSE Range(ExistingFieldnames(f))
             first == FirstBatch(is_first_batch, f)
             fields == BackupFieldnames(props, existing)
         IN  IF first
             THEN [exists |-> TRUE,
                   lines |-> <<HeaderLine(fields, 0, k)>> \o BackupRows(props, fields, k)]
             ELSE [exists |-> TRUE, lines |-> f.lines \o BackupRows(props, fields, k)]

\* the batch is full or the last property was scraped: is_first_batch =
\* batch_number == 1, save_batch_to_csv, batch_number += 1
BackupSave ==
    /\ bpc = "run"
    /\ batch_number <= MaxBackupBatches
    /\ \E props \in BackupBatchesOf :
         backup_file' = save_batch_to_csv(props, backup_file, batch_number = 1, batch_number)
    /\ batch_number' = batch_number + 1
    /\ UNCHANGED <<notBackupVars, bpc, initial_file>>

\* the loop over property_urls is over: finally: driver.quit()
BackupEnd ==
    /\ bpc = "run"
    /\ bpc' = "done"
    /\ UNCHANGED <<notBackupVars, batch_number, backup_file, initial_file>>

InitBackup ==
    /\ OldIdle
    /\ ScrollIdle
    /\ MoreIdle
    /\ LoadIdle
    /\ PureIdle
    /\ bpc = "run"
    /\ batch_number = 1
    /\ backup_file \in BackupStores
    /\ initial_file = backup_file

NextBackup ==
    \/ BackupSave
    \/ BackupEnd

SpecBackup == InitBackup /\ [][NextBackup]_vars

(* ------------------ DataValidator.normalize_price alone ---------------- *)
\* the longest price text drawn character by character
MaxPriceLen == 3

notPureVars == <<oldVars, scrollVars, moreVars, loadVars, backupVars>>

\* the characters the drawn price texts are made of
PriceAlphabet == {"1", "5", ",", ".", "a", " "}

\* the price texts handed to normalize_price: None, every text of up to
\* MaxPriceLen characters, and three longer ones
PriceInputs ==
    {NoText}
        \cup {Text(t) : t \in UNION {[1..n -> PriceAlphabet] : n \in 0..MaxPriceLen}}
        \cup {Text(<<"1", ",", "2", "3", "4", ".", "5", "6">>),
              Text(<<"1", "2", "3", "4", ",", "5", "6">>),
              Text(<<"a", "b", "c">>)}

\* DataValidator.normalize_price(price_text) is called
ApplyNormalizePrice ==
    /\ fpc = "price"
    /\ fres' = normalize_price(farg)
    /\ fpc' = "price_done"
    /\ UNCHANGED <<notPureVars, farg>>

InitPrice ==
    /\ OldIdle
    /\ ScrollIdle
    /\ MoreIdle
    /\ LoadIdle
    /\ BackupIdle
    /\ fpc = "price"
    /\ farg \in PriceInputs
    /\ fres = << >>

NextPrice == ApplyNormalizePrice

SpecPrice == InitPrice /\ [][NextPrice]_vars

(* --------- validate_coordinates and the threaded coordinate block ------ *)
\* the texts a coordinate pattern ([0-9\.\-]+) may capture
CoordTexts ==
    {"0", "10", "33.5", "45.5", "-7.6", "-73.6", "90", "-90", "90.1", "-90.1", "91", "95.0",
     "180", "-180", "180.1", "-180.1", "-", "1.2.3"}

\* DataValidator.validate_coordinates(lat, lng) is called
ApplyValidateCoordinates ==
    /\ fpc = "coords"
    /\ fres' = validate_coordinates(farg[1], farg[2])
    /\ fpc' = "coords_done"
    /\ UNCHANGED <<notPureVars, farg>>

\* extract_coordinates(page_source) of the threaded scrapers: the floats of
\* the first pattern whose groups both parse, without a range test
extract_coordinates(m) ==
    IF m = << >> \/ ~CoordFloat(m[1]).ok \/ ~CoordFloat(m[2]).ok
    THEN <<PyNone, PyNone>>
    ELSE <<PyNum(CoordFloat(m[1]).n), PyNum(CoordFloat(m[2]).n)>>

\* the truth value of what extract_coordinates gives: None and 0.0 are false
CoordTruthy(v) == v.t = "num" /\ v.n # 0

\* scrape_property_data: lat, lon = extract_coordinates(...); if lat and lon
\* the pair goes into data, which starts with both fields None
StoreCoordinates ==
    /\ fpc = "threaded"
    /\ LET c == extract_coordinates(farg)
       IN  fres' = IF CoordTruthy(c[1]) /\ CoordTruthy(c[2]) THEN c ELSE <<PyNone, PyNone>>
    /\ fpc' = "threaded_done"
    /\ UNCHANGED <<notPureVars, farg>>

InitCoords ==
    /\ OldIdle
    /\ ScrollIdle
    /\ MoreIdle
    /\ LoadIdle
    /\ BackupIdle
    /\ \/ fpc = "coords" /\ farg \in CoordTexts \X CoordTexts
       \/ fpc = "threaded" /\ farg \in (CoordTexts \X CoordTexts) \cup {<< >>}
    /\ fres = << >>

NextCoords ==
    \/ ApplyValidateCoordinates
    \/ StoreCoordinates

SpecCoords == InitCoords /\ [][NextCoords]_vars

(* ------------------ PropertyClassifier.is_apartment alone -------------- *)
\* the longest title drawn word by word
MaxTitleWords == 2

\* the words the drawn titles are made of
TitleWords == {"Studio", "Loft", "Hotel", "Riad", "Spacious", "Maison"}

\* the titles and page sources handed to is_apartment
ClassifyInputs ==
    ({NoText} \cup {Text(t) : t \in UNION {[1..n -> TitleWords] : n \in 0..MaxTitleWords}})
        \X {<< >>, <<"apartment">>, <<"hotel">>}

\* PropertyClassifier.is_apartment(title, page_source) is called
ApplyIsApartment ==
    /\ fpc = "classify"
    /\ fres' = is_apartment(farg[1], farg[2])
    /\ fpc' = "classify_done"
    /\ UNCHANGED <<notPureVars, farg>>

InitClassify ==
    /\ OldIdle
    /\ ScrollIdle
    /\ MoreIdle
    /\ LoadIdle
    /\ BackupIdle
    /\ fpc = "classify"
    /\ farg \in ClassifyInputs
    /\ fres = << >>

NextClassify == ApplyIsApartment

SpecClassify == InitClassify /\ [][NextClassify]_vars

(* ------------- scrape_property_data of the threaded scraper ------------ *)
\* the URLs of the chunk scraped one after the other with one driver
MaxPropUrls == 2

midVars == <<baseVars, scrollVars, moreVars, loadVars, backupVars, pureVars>>

MidIdle ==
    /\ BaseIdle
    /\ ScrollIdle
    /\ MoreIdle
    /\ LoadIdle
    /\ BackupIdle
    /\ PureIdle

notPropVars == <<midVars, retryVars, reviewVars, progVars, writerVars>>

\* data as scrape_property_data builds it before the try; the review fields
\* are kept as two groups, the coordinates as one and the location as one
InitialData ==
    [property_id |-> "set", scrape_timestamp |-> "set", property_url |-> "set",
     category |-> NoneVal, prices |-> NoneVal, wifi_speed |-> NoneVal, scores |-> NoneVal,
     traveler |-> NoneVal, latlon |-> NoneVal, location |-> NoneVal]

\* review_selectors, as listed
ListedLocators == <<"js--hp-gallery-scorecard", "see-all-reviews-link", "#tab-reviews">>

\* the locator the k-th pass of the loop waits on: EC.element_to_be_clickable
\* is given (By.ID, "js--hp-gallery-scorecard") whatever by and selector are
WaitedLocator(k) == "js--hp-gallery-scorecard"

HandlerNone(pos) == "raised"

\* where an exception raised at a position of scrape_property_data is
\* caught, as the position the function goes on from
Handler(pos) ==
    CASE pos \in {"get", "category"} -> "return"
      [] pos = "prices" -> "wifi"
      [] pos \in {"locate", "window", "scores", "traveler", "close"} -> "coords"
      [] OTHER -> "return"

\* driver.get(url)
PGet ==
    /\ qpc = "get"
    /\ \/ qpc' = "category" /\ UNCHANGED p_failed
       \/ qpc' = Handler("get") /\ p_failed' = p_failed \cup {"get"}
    /\ UNCHANGED <<notPropVars, p_url, pdata, windows, active, new_window, locators,
                   coords_from>>

\* data['category'] = extract_category(driver), None when it fails inside
PCategory ==
    /\ qpc = "category"
    /\ \/ pdata' = [pdata EXCEPT !.category = "val"] /\ UNCHANGED p_failed
       \/ pdata' = [pdata EXCEPT !.category = NoneVal]
          /\ p_failed' = p_failed \cup {"category"}
    /\ qpc' = "prices"
    /\ UNCHANGED <<notPropVars, p_url, windows, active, new_window, locators, coords_from>>

\* extract_prices(driver) inside its own try
PPrices ==
    /\ qpc = "prices"
    /\ \/ /\ pdata' = [pdata EXCEPT !.prices = "val"]
          /\ qpc' = "wifi"
          /\ UNCHANGED p_failed
       \/ /\ qpc' = Handler("prices")
          /\ p_failed' = p_failed \cup {"prices"}
          /\ UNCHANGED pdata
    /\ UNCHANGED <<notPropVars, p_url, windows, active, new_window, locators, coords_from>>

\* the 'Mbps' element, 'Not specified' when it cannot be read
PWifi ==
    /\ qpc = "wifi"
    /\ \/ pdata' = [pdata EXCEPT !.wifi_speed = "val"] /\ UNCHANGED p_failed
       \/ pdata' = [pdata EXCEPT !.wifi_speed = "Not specified"]
          /\ p_failed' = p_failed \cup {"wifi"}
    /\ qpc' = "locate"
    /\ UNCHANGED <<notPropVars, p_url, windows, active, new_window, locators, coords_from>>

\* one pass of "for by, selector in review_selectors": the wait and the
\* click; after the last pass without a click "Reviews link not found" is
\* raised
PLocate ==
    /\ qpc = "locate"
    /\ locators' = Append(locators, WaitedLocator(Len(locators) + 1))
    /\ \/ qpc' = "window" /\ UNCHANGED p_failed
       \/ IF Len(locators') = Len(ListedLocators)
          THEN qpc' = Handler("locate") /\ p_failed' = p_failed \cup {"reviews"}
          ELSE qpc' = "locate" /\ UNCHANGED p_failed
    /\ UNCHANGED <<notPropVars, p_url, pdata, windows, active, new_window, coords_from>>

\* the click opened a new window, which is switched to, or none; then the
\* wait for the review cards
PWindow ==
    /\ qpc = "window"
    /\ \/ /\ windows' = windows + 1
          /\ active' = "reviews"
          /\ new_window' = TRUE
       \/ UNCHANGED <<windows, active, new_window>>
    /\ \/ qpc' = "scores" /\ UNCHANGED p_failed
       \/ qpc' = Handler("window") /\ p_failed' = p_failed \cup {"reviews"}
    /\ UNCHANGED <<notPropVars, p_url, pdata, locators, coords_from>>

\* the sub-scores, the general score and the count, each in its own try
PScores ==
    /\ qpc = "scores"
    /\ pdata' \in {[pdata EXCEPT !.scores = v] : v \in {"val", NoneVal}}
    /\ qpc' = "traveler"
    /\ UNCHANGED <<notPropVars, p_url, p_failed, windows, active, new_window, locators,
                   coords_from>>

\* process_reviews_by_traveler_type and the averages
PTraveler ==
    /\ qpc = "traveler"
    /\ \/ /\ pdata' \in {[pdata EXCEPT !.traveler = v] : v \in {"val", NoneVal}}
          /\ qpc' = "close"
          /\ UNCHANGED p_failed
       \/ /\ qpc' = Handler("traveler")
          /\ p_failed' = p_failed \cup {"traveler"}
          /\ UNCHANGED pdata
    /\ UNCHANGED <<notPropVars, p_url, windows, active, new_window, locators, coords_from>>

\* if new_window: driver.close(), whose failure is ignored, and
\* driver.switch_to.window(parent_handle)
PClose ==
    /\ qpc = "close"
    /\ IF new_window
       THEN /\ windows' \in {windows - 1, windows}
            /\ active' = "parent"
       ELSE UNCHANGED <<windows, active>>
    /\ qpc' = "coords"
    /\ UNCHANGED <<notPropVars, p_url, pdata, p_failed, new_window, locators, coords_from>>

\* extract_coordinates(driver.page_source), the source being that of the
\* active window, and "if lat and lon"
PCoords ==
    /\ qpc = "coords"
    /\ \/ /\ coords_from' = active
          /\ \/ pdata' = [pdata EXCEPT !.latlon = "val"] /\ qpc' = "geocode"
             \/ qpc' = "return" /\ UNCHANGED pdata
          /\ UNCHANGED p_failed
       \/ /\ qpc' = Handler("coords")
          /\ p_failed' = p_failed \cup {"coords"}
          /\ UNCHANGED <<pdata, coords_from>>
    /\ UNCHANGED <<notPropVars, p_url, windows, active, new_window, locators>>

\* data.update(get_location_details(lat, lon)): the three fields, or the
\* three of them None when the request fails or times out
PGeocode ==
    /\ qpc = "geocode"
    /\ \/ pdata' = [pdata EXCEPT !.location = "val"] /\ UNCHANGED p_failed
       \/ pdata' = [pdata EXCEPT !.location = NoneVal]
          /\ p_failed' = p_failed \cup {"geocode"}
    /\ qpc' = "return"
    /\ UNCHANGED <<notPropVars, p_url, windows, active, new_window, locators, coords_from>>

\* return data
PReturn ==
    /\ qpc = "return"
    /\ qpc' = "returned"
    /\ UNCHANGED <<notPropVars, p_url, pdata, p_failed, windows, active, new_window,
                   locators, coords_from>>

\* the worker's loop calls scrape_property_data for the next URL with the
\* same driver; the window then active is that call's parent_handle
PNextUrl ==
    /\ qpc = "returned"
    /\ p_url < MaxPropUrls
    /\ p_url' = p_url + 1
    /\ pdata' = InitialData
    /\ p_failed' = {}
    /\ active' = "parent"
    /\ new_window' = FALSE
    /\ locators' = << >>
    /\ coords_from' = "none"
    /\ qpc' = "get"
    /\ UNCHANGED <<notPropVars, windows>>

InitProp ==
    /\ MidIdle
    /\ RetryIdle
    /\ ReviewIdle
    /\ ProgIdle
    /\ WriterIdle
    /\ qpc = "get"
    /\ p_url = 1
    /\ pdata = InitialData
    /\ p_failed = {}
    /\ windows = 1
    /\ active = "parent"
    /\ new_window = FALSE
    /\ locators = << >>
    /\ coords_from = "none"

NextProp ==
    \/ PGet
    \/ PCategory
    \/ PPrices
    \/ PWifi
    \/ PLocate
    \/ PWindow
    \/ PScores
    \/ PTraveler
    \/ PClose
    \/ PCoords
    \/ PGeocode
    \/ PReturn
    \/ PNextUrl

SpecProp == InitProp /\ [][NextProp]_vars

(* ------- save_to_csv on a store that may exist before the first call --- *)
\* the file as the first save_to_csv call may find it: absent, present but
\* empty, present with a header
StoreStates ==
    {NoFile,
     [exists |-> TRUE, lines |-> << >>],
     [exists |-> TRUE, lines |-> <<HeaderLine(BaseFields, 0, 0)>>]}

InitStore ==
    /\ OrchIdle
    /\ pc = [w \in Workers |-> IF w = 1 THEN "caller" ELSE "idle"]
    /\ chunk = [w \in Workers |-> << >>]
    /\ idx = [w \in Workers |-> 0]
    /\ batch = [w \in Workers |-> << >>]
    /\ processed = [w \in Workers |-> 0]
    /\ data_list = [w \in Workers |-> << >>]
    /\ fieldnames = [w \in Workers |-> << >>]
    /\ file_exists = [w \in Workers |-> FALSE]
    /\ rowi = [w \in Workers |-> 1]
    /\ ret = [w \in Workers |-> "idle"]
    /\ csv_lock = 0
    /\ file \in StoreStates
    /\ handed = [w \in Workers |-> << >>]
    /\ interrupted = [w \in Workers |-> FALSE]
    /\ ncall = [w \in Workers |-> 0]
    /\ attempted = [w \in Workers |-> << >>]
    /\ session = [w \in Workers |-> [created |-> 0, open |-> FALSE, users |-> {}]]
    /\ DiscIdle
    /\ ValIdle
    /\ ExtIdle

SpecStore == InitStore /\ [][NextCsv]_vars

(* ---------------- _retry_operation in scrape_city's listing loop --------- *)

\* listings of the city, at most
MaxListings == 3

\* ScrapingConfig.max_retries
max_retries == 3

notRetryVars == <<midVars, propVars, reviewVars, progVars, writerVars>>

\* what happens inside one invocation of _scrape_single_listing
ListingEvents ==
    {"apartment", "timeout", "no_title", "not_apartment", "invalid", "error"}

\* _scrape_single_listing: the record when the page is a valid apartment;
\* None when the page did not load, has no title, is not an apartment or fails
\* validation; its whole body runs under `except Exception`, which logs the
\* error and returns None as well
_scrape_single_listing(event) ==
    IF event = "apartment" THEN Returned("apartment") ELSE Returned(NoneVal)

\* scrape_city: the next url of the batch; _retry_operation starts its loop
RetryCall ==
    /\ tpc = "loop"
    /\ t_listing < MaxListings
    /\ t_listing' = t_listing + 1
    /\ t_attempt' = 0
    /\ t_calls' = 0
    /\ t_errored' = FALSE
    /\ tpc' = "attempt"
    /\ UNCHANGED <<t_log, notRetryVars>>

\* _retry_operation: one pass of `for attempt in range(max_retries)`; then
\* scrape_city's `if apartment:` / `except Exception` and the next listing
RetryAttempt ==
    /\ tpc = "attempt"
    /\ \E event \in ListingEvents :
        LET r == _scrape_single_listing(event)
            errored == t_errored \/ event = "error"
            entry(how, v) == [how |-> how, value |-> v, calls |-> t_calls + 1,
                              errored |-> errored, last |-> event]
        IN  /\ t_calls' = t_calls + 1
            /\ t_errored' = errored
            /\ IF r.kind = "raise"
               THEN IF t_attempt = max_retries - 1
                    THEN /\ t_log' = Append(t_log, entry("raised", NoneVal))
                         /\ tpc' = "loop"
                         /\ t_attempt' = t_attempt
                    ELSE /\ t_attempt' = t_attempt + 1
                         /\ tpc' = "attempt"
                         /\ t_log' = t_log
               ELSE /\ t_log' = Append(t_log,
                         entry(IF r.v = NoneVal THEN "skipped" ELSE "scraped", r.v))
                    /\ tpc' = "loop"
                    /\ t_attempt' = t_attempt
    /\ UNCHANGED <<t_listing, notRetryVars>>

\* scrape_city: the batch is exhausted
RetryEnd ==
    /\ tpc = "loop"
    /\ t_listing >= 1
    /\ tpc' = "done"
    /\ UNCHANGED <<t_listing, t_attempt, t_calls, t_errored, t_log, notRetryVars>>

InitRetry ==
    /\ MidIdle
    /\ PropIdle
    /\ ReviewIdle
    /\ ProgIdle
    /\ WriterIdle
    /\ tpc = "loop"
    /\ t_listing = 0
    /\ t_attempt = 0
    /\ t_calls = 0
    /\ t_errored = FALSE
    /\ t_log = << >>

NextRetry ==
    \/ RetryCall
    \/ RetryAttempt
    \/ RetryEnd

SpecRetry == InitRetry /\ [][NextRetry]_vars

(* -------------------- the review paging loops ---------------------------- *)

\* TEST_MAX_REVIEW_PAGES of the threaded scraper
TEST_MAX_REVIEW_PAGES == 2

\* review pages the site can serve before the model stops following the loop
MaxPageCount == 4

\* review cards with a score on one page, at most
MaxCards == 4

notReviewVars == <<midVars, propVars, retryVars, progVars, writerVars>>

ReviewFns == {"process_reviews_by_traveler_type", "process_specific_traveler_category"}

\* the loop has been left
ReviewEnded == {"limit", "last_page", "no_next", "page_error"}

\* the limit test with the comparison moved past the limit
AtPageLimitLate(n) == TEST_MAX_REVIEW_PAGES # 0 /\ n > TEST_MAX_REVIEW_PAGES

\* process_reviews_by_traveler_type: the test after the cards of a page
AtPageLimit(n) == TEST_MAX_REVIEW_PAGES # 0 /\ n >= TEST_MAX_REVIEW_PAGES

\* process_specific_traveler_category: the test at the top of the loop
PastPageLimit(n) == TEST_MAX_REVIEW_PAGES # 0 /\ n > TEST_MAX_REVIEW_PAGES

\* top of `while True`: page_count += 1; the second function tests the limit
ReviewTop ==
    /\ review_pc = "top"
    /\ page_count < MaxPageCount
    /\ page_count' = page_count + 1
    /\ review_pc' = IF /\ review_fn = "process_specific_traveler_category"
                       /\ PastPageLimit(page_count + 1)
                    THEN "limit" ELSE "page"
    /\ UNCHANGED <<review_fn, pages_read, n_scores, notReviewVars>>

\* the wait for the review cards and the pass over them; a card that cannot
\* be read is skipped, a failed wait ends the loop; the first function tests
\* the limit after the cards
ReviewPage ==
    /\ review_pc = "page"
    /\ \/ /\ review_pc' = "page_error"
          /\ UNCHANGED <<pages_read, n_scores>>
       \/ \E cards \in 0..MaxCards :
            /\ pages_read' = pages_read + 1
            /\ n_scores' = n_scores + cards
            /\ review_pc' = IF /\ review_fn = "process_reviews_by_traveler_type"
                               /\ AtPageLimit(page_count)
                            THEN "limit" ELSE "next"
    /\ UNCHANGED <<review_fn, page_count, notReviewVars>>

\* the next-page button: absent or not clickable within 3 s, disabled, or
\* clicked
ReviewNext ==
    /\ review_pc = "next"
    /\ \E button \in {"none", "disabled", "enabled"} :
        review_pc' = CASE button = "none" -> "no_next"
                       [] button = "disabled" -> "last_page"
                       [] OTHER -> "top"
    /\ UNCHANGED <<review_fn, page_count, pages_read, n_scores, notReviewVars>>

InitReviews ==
    /\ MidIdle
    /\ PropIdle
    /\ RetryIdle
    /\ ProgIdle
    /\ WriterIdle
    /\ review_fn \in ReviewFns
    /\ review_pc = "top"
    /\ page_count = 0
    /\ pages_read = 0
    /\ n_scores = 0

NextReviews ==
    \/ ReviewTop
    \/ ReviewPage
    \/ ReviewNext

SpecReviews == InitReviews /\ [][NextReviews]_vars

\* every wait of the loop is bounded (10 s for the cards, 3 s for the button),
\* so a loop that can take a step takes one
SpecReviewsLive == SpecReviews /\ WF_vars(NextReviews)

(* ------------- worker_thread and the progress count (backup scraper) ----- *)

\* URLs of the worker's chunk, at most
MaxProgUrls == 3

\* batch_size, at most
MaxProgBatch == 3

\* exceptions outside the scrape of a property, at most
MaxProgFaults == 1

notProgVars == <<midVars, propVars, retryVars, reviewVars, writerVars>>

\* write_batch leaves the rows it wrote before it raised: j rows of the batch
WrittenRows(rows, props, j) == rows \o SubSeq(props, 1, j)

\* worker_thread: one property of the chunk; a scrape that raises is skipped
\* by the inner `except Exception`
GScrape ==
    /\ g_pc = "loop"
    /\ g_i < g_n
    /\ g_i' = g_i + 1
    /\ \E ok \in BOOLEAN :
        IF ok
        THEN /\ g_batch' = Append(g_batch, g_i + 1)
             /\ g_pc' = IF Len(g_batch) + 1 >= g_bsize \/ g_i + 1 = g_n
                        THEN "flush" ELSE "loop"
        ELSE /\ g_batch' = g_batch
             /\ g_pc' = "loop"
    /\ UNCHANGED <<g_n, g_bsize, g_rows, g_queue, g_total, g_mpc, g_faults,
                   notProgVars>>

\* worker_thread: write_batch, progress_queue.put, current_batch = []; a
\* write_batch that raises is caught by the inner `except Exception`
GFlush ==
    /\ g_pc = "flush"
    /\ g_pc' = "loop"
    /\ \/ /\ g_rows' = WrittenRows(g_rows, g_batch, Len(g_batch))
          /\ g_queue' = Append(g_queue, Len(g_batch))
          /\ g_batch' = << >>
          /\ g_faults' = g_faults
       \/ /\ g_faults > 0
          /\ \E j \in 0..(Len(g_batch) - 1) :
                g_rows' = WrittenRows(g_rows, g_batch, j)
          /\ g_faults' = g_faults - 1
          /\ UNCHANGED <<g_queue, g_batch>>
    /\ UNCHANGED <<g_i, g_n, g_bsize, g_total, g_mpc, notProgVars>>

\* worker_thread: an exception raised outside the inner try (the print at the
\* top of the loop) leaves the loop for the outer `except Exception`
GEscape ==
    /\ g_pc = "loop"
    /\ g_i < g_n
    /\ g_faults > 0
    /\ g_faults' = g_faults - 1
    /\ g_pc' = "except"
    /\ UNCHANGED <<g_i, g_n, g_bsize, g_batch, g_rows, g_queue, g_total, g_mpc,
                   notProgVars>>

\* worker_thread: the outer handlers write the pending batch, put its length
\* on the queue and keep current_batch
GExcept ==
    /\ g_pc = "except"
    /\ g_pc' = "finally"
    /\ IF g_batch = << >>
       THEN UNCHANGED <<g_rows, g_queue, g_faults>>
       ELSE \/ /\ g_rows' = WrittenRows(g_rows, g_batch, Len(g_batch))
               /\ g_queue' = Append(g_queue, Len(g_batch))
               /\ g_faults' = g_faults
            \/ /\ g_faults > 0
               /\ \E j \in 0..(Len(g_batch) - 1) :
                     g_rows' = WrittenRows(g_rows, g_batch, j)
               /\ g_faults' = g_faults - 1
               /\ g_queue' = g_queue
    /\ UNCHANGED <<g_i, g_n, g_bsize, g_batch, g_total, g_mpc, notProgVars>>

\* worker_thread: the loop is exhausted
GLoopEnd ==
    /\ g_pc = "loop"
    /\ g_i = g_n
    /\ g_pc' = "finally"
    /\ UNCHANGED <<g_i, g_n, g_bsize, g_batch, g_rows, g_queue, g_total, g_mpc,
                   g_faults, notProgVars>>

\* worker_thread: `finally` writes what current_batch holds and puts its
\* length on the queue; the thread ends
GFinally ==
    /\ g_pc = "finally"
    /\ g_pc' = "done"
    /\ IF g_batch = << >>
       THEN UNCHANGED <<g_rows, g_queue, g_faults>>
       ELSE \/ /\ g_rows' = WrittenRows(g_rows, g_batch, Len(g_batch))
               /\ g_queue' = Append(g_queue, Len(g_batch))
               /\ g_faults' = g_faults
            \/ /\ g_faults > 0
               /\ \E j \in 0..(Len(g_batch) - 1) :
                     g_rows' = WrittenRows(g_rows, g_batch, j)
               /\ g_faults' = g_faults - 1
               /\ g_queue' = g_queue
    /\ UNCHANGED <<g_i, g_n, g_bsize, g_batch, g_total, g_mpc, notProgVars>>

\* scrape_all_properties_threaded: total_processed += batch_count
GMonitor ==
    /\ g_mpc = "monitor"
    /\ g_queue # << >>
    /\ g_total' = g_total + Head(g_queue)
    /\ g_queue' = Tail(g_queue)
    /\ UNCHANGED <<g_pc, g_i, g_n, g_bsize, g_batch, g_rows, g_mpc, g_faults,
                   notProgVars>>

\* scrape_all_properties_threaded: the futures are done and the queue is
\* drained; the totals are printed
GReport ==
    /\ g_mpc = "monitor"
    /\ g_pc = "done"
    /\ g_queue = << >>
    /\ g_mpc' = "done"
    /\ UNCHANGED <<g_pc, g_i, g_n, g_bsize, g_batch, g_rows, g_queue, g_total,
                   g_faults, notProgVars>>

InitProg ==
    /\ MidIdle
    /\ PropIdle
    /\ RetryIdle
    /\ ReviewIdle
    /\ WriterIdle
    /\ g_pc = "loop"
    /\ g_i = 0
    /\ g_n \in 1..MaxProgUrls
    /\ g_bsize \in 1..MaxProgBatch
    /\ g_batch = << >>
    /\ g_rows = << >>
    /\ g_queue = << >>
    /\ g_total = 0
    /\ g_mpc = "monitor"
    /\ g_faults \in 0..MaxProgFaults

NextProg ==
    \/ GScrape
    \/ GFlush
    \/ GEscape
    \/ GExcept
    \/ GLoopEnd
    \/ GFinally
    \/ GMonitor
    \/ GReport

SpecProg == InitProg /\ [][NextProg]_vars

(* ---------------- ThreadSafeCSVWriter.write_batch ------------------------ *)

\* write_batch calls of one worker, at most
MaxWriterCalls == 2

notWriterVars == <<midVars, propVars, retryVars, reviewVars, progVars>>

\* the batches a worker flushes: one property each
WriterBatches == [1..1 -> BackupProps]

\* a line of the store with the column list it was written with
WriterLine(kind, cols, w) == [kind |-> kind, cols |-> cols, w |-> w]

\* set(reader.fieldnames or []): the cells of the first line of the file
WriterExisting(f) == IF f.lines = << >> THEN {} ELSE Range(f.lines[1].cols)

\* worker_thread: csv_writer.write_batch(current_batch, is_first_batch) with
\* is_first_batch = (thread_id == 1 and total_processed <= batch_size), which
\* is true for the first flush of thread 1 and false for every other flush
WbCall(w) ==
    /\ xpc[w] = "idle"
    /\ x_calls[w] < MaxWriterCalls
    /\ \E props \in WriterBatches : x_props' = [x_props EXCEPT ![w] = props]
    /\ x_first' = [x_first EXCEPT ![w] = (w = 1 /\ x_calls[w] = 0)]
    /\ xpc' = [xpc EXCEPT ![w] = "fieldnames"]
    /\ UNCHANGED <<x_calls, x_fields, x_file, notWriterVars>>

\* write_batch before the lock: the header is read unless is_first_batch, a
\* missing file sets is_first_batch, fieldnames = sorted(batch | existing)
WbFieldnames(w) ==
    /\ xpc[w] = "fieldnames"
    /\ LET existing == IF x_first[w] \/ ~x_file.exists THEN {}
                       ELSE WriterExisting(x_file)
       IN  x_fields' = [x_fields EXCEPT ![w] = BackupFieldnames(x_props[w], existing)]
    /\ x_first' = [x_first EXCEPT ![w] = FirstBatch(x_first[w], x_file)]
    /\ xpc' = [xpc EXCEPT ![w] = "lock"]
    /\ UNCHANGED <<x_calls, x_props, x_file, notWriterVars>>

\* write_batch under self.lock: mode 'w' and a header when the file does not
\* exist, mode 'a' otherwise; one row per property with the call's fieldnames
WbWrite(w) ==
    /\ xpc[w] = "lock"
    /\ LET rows == [j \in 1..Len(x_props[w]) |-> WriterLine("R", x_fields[w], w)]
       IN  x_file' =
             IF x_file.exists
             THEN [exists |-> TRUE, lines |-> x_file.lines \o rows]
             ELSE [exists |-> TRUE,
                   lines |-> <<WriterLine("H", x_fields[w], w)>> \o rows]
    /\ x_calls' = [x_calls EXCEPT ![w] = x_calls[w] + 1]
    /\ xpc' = [xpc EXCEPT ![w] = "idle"]
    /\ UNCHANGED <<x_props, x_first, x_fields, notWriterVars>>

InitWriter ==
    /\ MidIdle
    /\ PropIdle
    /\ RetryIdle
    /\ ReviewIdle
    /\ ProgIdle
    /\ xpc = [w \in Workers |-> "idle"]
    /\ x_calls = [w \in Workers |-> 0]
    /\ x_props = [w \in Workers |-> << >>]
    /\ x_first = [w \in Workers |-> FALSE]
    /\ x_fields = [w \in Workers |-> << >>]
    /\ x_file = NoFile

NextWriter ==
    \/ \E w \in Workers : WbCall(w)
    \/ \E w \in Workers : WbFieldnames(w)
    \/ \E w \in Workers : WbWrite(w)

SpecWriter == InitWriter /\ [][NextWriter]_vars

(* ------------------------------- claims -------------------------------- *)
Rows(f) == SelectSeq(f.lines, LAMBDA l : l.kind = "R")

\* C1: after any sequence of batch writes the header of the store names every
\* column of every batch written so far, and every data row has exactly one
\* value per header column.
C1_HeaderCoversEveryBatch ==
    (pc[1] = "caller" /\ file.exists /\ file.lines # << >>) =>
        LET hdr == file.lines[1].cells
        IN  /\ file.lines[1].kind = "H"
            /\ \A k \in 1..Len(handed[1]) :
                 handed[1][k] # << >> =>
                    \A f \in Range(BatchFieldnames(handed[1][k])) : InSeq(f, hdr)
            /\ \A k \in 1..Len(file.lines) :
                 file.lines[k].kind = "R" => Len(file.lines[k].cells) = Len(hdr)

\* the lines a save_to_csv call (w, k) has put in the store
LinesOf(w, k) == SelectSeq(file.lines, LAMBDA l : l.w = w /\ l.k = k)

\* the store holds a row written for the record of this URL, with its values
HasRowFor(url) ==
    \E k \in 1..Len(file.lines) :
        /\ file.lines[k].kind = "R"
        /\ file.lines[k].url = url
        /\ url \in Range(file.lines[k].cells)

\* C2: at most one worker is between the existence/header check and the end of
\* its row appends, and the lines one save_to_csv call writes are contiguous
\* in the store.
C2_WriterMutualExclusion ==
    /\ Cardinality({w \in Workers : InLock(w)}) <= 1
    /\ \A i, j \in 1..Len(file.lines) :
         (i < j /\ file.lines[i].w = file.lines[j].w /\ file.lines[i].k = file.lines[j].k)
            => \A m \in i..j : /\ file.lines[m].w = file.lines[i].w
                               /\ file.lines[m].k = file.lines[i].k

\* two workers want the store at once and rows of both end up in it
C2_Contention ==
    \E w1, w2 \in Workers :
        /\ w1 # w2
        /\ InLock(w1)
        /\ pc[w2] = "s_lock"
        /\ \E i \in 1..Len(file.lines) : file.lines[i].w = w2

NoInterrupt == \A w \in Workers : ~interrupted[w]

\* the call (w, k) has returned
Completed(w, k) == k < ncall[w] \/ (k = ncall[w] /\ ~InSave(w))

\* one valid header, then only rows, each as wide as the header, and every
\* completed batch there in full
StoreWellFormed ==
    (file.exists /\ file.lines # << >>) =>
        /\ file.lines[1].kind = "H"
        /\ \A i \in 2..Len(file.lines) :
             /\ file.lines[i].kind = "R"
             /\ Len(file.lines[i].cells) = Len(file.lines[1].cells)
        /\ \A w \in Workers : \A k \in 1..Len(handed[w]) :
             Completed(w, k) =>
                Len(SelectSeq(LinesOf(w, k), LAMBDA l : l.kind = "R")) = Len(handed[w][k])
        /\ Len(Rows(file)) =
             Cardinality({<<w, k, j>> \in Workers \X (1..MaxUrls + 2) \X (1..MaxUrls) :
                            /\ k <= Len(handed[w])
                            /\ j <= (IF Completed(w, k) THEN Len(handed[w][k])
                                     ELSE IF k = ncall[w] /\ pc[w] = "s_row"
                                          THEN rowi[w] - 1 ELSE 0)})

\* C3: completed batch writes are durable and append-only: as long as nothing
\* has interrupted the run the store is one valid header followed by exactly
\* the rows of the batches written so far, and no step of any worker, before or
\* after an interruption or a worker failure, changes or removes a line that
\* is already in the store.
C3_DurableAppendOnly ==
    /\ [](NoInterrupt => StoreWellFormed)
    /\ [][file.exists => (file'.exists /\ IsPrefix(file.lines, file'.lines))]_vars

\* a worker was interrupted after a first flushed batch and wrote again, and
\* another worker has failed
C3_WroteAfterInterrupt ==
    \E w, v \in Workers :
        /\ interrupted[w]
        /\ pc[w] = "done"
        /\ Len(handed[w]) >= 2
        /\ pc[v] = "failed"
        /\ Len(file.lines) >= 3

\* C5: when KeyboardInterrupt reaches the per-URL loop, every record that is in
\* the batch at that moment is in the store when worker_thread exits.
C5_InterruptFlushesBatch ==
    \A w \in Workers :
        (interrupted[w] /\ Finished(w)) =>
            \A j \in 1..Len(batch[w]) : HasRowFor(batch[w][j].url)

\* an interrupted worker has exited with records that were pending
C5_InterruptedWithPending ==
    \E w \in Workers :
        /\ interrupted[w]
        /\ pc[w] = "done"
        /\ batch[w] # << >>
        /\ Len(handed[w]) = 2

RECURSIVE Flatten(_)
Flatten(ss) == IF ss = << >> THEN << >> ELSE Head(ss) \o Flatten(Tail(ss))

\* C7: without a failing write (and without an interrupt) the batch is flushed
\* and reset exactly when it reaches batch_size or the last URL is done: it
\* never exceeds batch_size, is below it between two URLs, every flushed batch
\* but the last has batch_size records, and on completion the batch is empty
\* and every accepted record has been handed to the writer.
C7_FlushWhenFullOrLast ==
    \A w \in Workers :
        ~interrupted[w] =>
            /\ Len(batch[w]) <= batch_size
            /\ pc[w] = "loop" => Len(batch[w]) < batch_size
            /\ \A k \in 1..Len(handed[w]) :
                 /\ Len(handed[w][k]) >= 1
                 /\ Len(handed[w][k]) <= batch_size
                 /\ k < Len(handed[w]) => Len(handed[w][k]) = batch_size
            /\ pc[w] \in {"finally", "quit", "done"} =>
                 /\ batch[w] = << >>
                 /\ [j \in 1..Len(Flatten(handed[w])) |-> Flatten(handed[w])[j].url]
                        = chunk[w]

\* a worker completed normally after a full batch and a shorter last one
C7_FullThenShort ==
    \E w \in Workers :
        /\ pc[w] = "done"
        /\ ~interrupted[w]
        /\ Len(handed[w]) = 2
        /\ Len(handed[w][1]) = batch_size
        /\ Len(handed[w][2]) < batch_size

\* a worker that ends with an error does not stop its siblings: every worker
\* that completes has processed and flushed all its URLs, each future is
\* yielded with the outcome of its own worker, and scrape_booking_properties
\* returns only after every submitted worker has finished or failed
SiblingsUnaffected ==
    /\ \A w \in Workers :
         (pc[w] = "done" /\ ~interrupted[w]) =>
            /\ idx[w] = Len(chunk[w])
            /\ \A j \in 1..Len(chunk[w]) : HasRowFor(chunk[w][j])
    /\ \A k \in 1..Len(reported) : reported[k].outcome = pc[reported[k].worker]
    /\ opc = "returned" => \A w \in Submitted : Finished(w) /\ w \in Yielded

\* the run has returned with one worker failed and a sibling completed
OneFailedOneDone ==
    /\ opc = "returned"
    /\ \E w1, w2 \in Submitted :
         /\ pc[w1] = "failed"
         /\ pc[w2] = "done"
         /\ ~interrupted[w2]
         /\ chunk[w2] # << >>

\* C8: a worker that ends with an error does not stop its siblings, which
\* process and flush all their URLs; the error is reported as the outcome of
\* the worker that failed and of no other worker; and
\* scrape_booking_properties returns only after every submitted worker has
\* finished or failed.
C8_FailureIsolation ==
    /\ SiblingsUnaffected
    /\ \A k \in 1..Len(reported) :
         reported[k].outcome = "failed" => pc[reported[k].label] = "failed"

\* some field beyond the three the scraper sets itself was extracted
HasScrapedData(item) ==
    \E f \in DOMAIN item \ {"property_id", "scrape_timestamp", "property_url"} :
        item[f] # NoneVal

\* C9: every record worker_thread hands to save_to_csv passes the quality
\* gate: a record of a page that failed to load, or that yielded no
\* identifying and no substance data, never reaches the writer.
C9_OnlyQualityRecordsWritten ==
    \A w \in Workers : \A k \in 1..Len(handed[w]) : \A j \in 1..Len(handed[w][k]) :
        HasScrapedData(Item(handed[w][k][j]))


\* C4: for 1 <= n <= m the chunks are contiguous slices in order whose
\* concatenation is the input list (disjoint, nothing omitted); there are
\* min(n, m) of them; chunks 0..n-2 have m div n URLs and the last one has
\* m - (n-1)*(m div n).
C4_ChunksPartitionUrls ==
    LET m == Len(property_urls)
        n == num_threads
    IN  (opc = "submit" /\ 1 <= n /\ n <= m) =>
            /\ Flatten(url_chunks) = property_urls
            /\ Len(url_chunks) = Min(n, m)
            /\ \A i, j \in 1..Len(url_chunks) :
                 i # j => Range(url_chunks[i]) \cap Range(url_chunks[j]) = {}
            /\ \A i \in 1..(Len(url_chunks) - 1) : Len(url_chunks[i]) = m \div n
            /\ Len(url_chunks[Len(url_chunks)]) = m - (n - 1) * (m \div n)

\* the chunks of a list that does not divide evenly among several workers
C4_UnevenSplit ==
    /\ opc = "submit"
    /\ num_threads >= 2
    /\ num_threads <= Len(property_urls)
    /\ Len(property_urls) % num_threads # 0
    /\ Len(url_chunks) = num_threads

RECURSIVE BeforeQuery(_)
\* the part of an href before its first "?"
BeforeQuery(href) ==
    IF href = << >> \/ Head(href) = "?" THEN << >>
    ELSE <<Head(href)>> \o BeforeQuery(Tail(href))

EntriesFor(c) == {k \in 1..Len(found) : BeforeQuery(found[k]) = c}

\* C6 as stated: the returned list has exactly one entry for the canonical form
\* of every link met, and that entry is the first-met original href.
C6_OneEntryPerCanonicalForm ==
    dpc = "returned" =>
        \A i \in 1..Len(first_met) :
            /\ Cardinality(EntriesFor(BeforeQuery(first_met[i]))) = 1
            /\ \A k \in EntriesFor(BeforeQuery(first_met[i])) : found[k] = first_met[i]

\* C6 as amended: the returned list has at most one entry per canonical form,
\* exactly one for each of the first TEST_MAX_PROPERTIES canonical forms met
\* and none for later ones, and each entry is the first-met original href of
\* its canonical form, query string included.
C6_OneEntryPerCanonicalFormUpToLimit ==
    dpc = "returned" =>
        /\ \A i, j \in 1..Len(found) :
             i # j => BeforeQuery(found[i]) # BeforeQuery(found[j])
        /\ \A i \in 1..Len(first_met) :
             IF i <= TEST_MAX_PROPERTIES
             THEN /\ Cardinality(EntriesFor(BeforeQuery(first_met[i]))) = 1
                  /\ \A k \in EntriesFor(BeforeQuery(first_met[i])) : found[k] = first_met[i]
             ELSE EntriesFor(BeforeQuery(first_met[i])) = {}
        /\ Len(found) = Min(Len(first_met), TEST_MAX_PROPERTIES)

\* a list was returned after links differing only in their query string were
\* met, and it keeps a query-bearing href
C6_DuplicatesMet ==
    /\ dpc = "returned"
    /\ dup_met
    /\ \E k \in 1..Len(found) : found[k] # BeforeQuery(found[k])
    /\ Len(found) >= 2

\* empty as the claim has it: missing, None or the empty string
IsEmpty(v) == v.t \in {"absent", "none"} \/ (v.t = "str" /\ v.s = "")

\* C10 as stated: an empty title is rejected; a non-empty title with price,
\* address and zone all empty is rejected; a non-empty title with at least one
\* of the three populated is accepted.
C10_QualityGate ==
    vpc = "returned" =>
        /\ IsEmpty(data.title) => ~valid
        /\ (~IsEmpty(data.title) /\ \A f \in RequiredFields : IsEmpty(data[f])) => ~valid
        /\ (~IsEmpty(data.title) /\ \E f \in RequiredFields : ~IsEmpty(data[f])) => valid

\* empty, or the number zero
IsEmptyOrZero(v) == IsEmpty(v) \/ (v.t = "num" /\ v.n = 0)

\* C10 as amended: an empty title is rejected; a non-empty title with price,
\* address and zone all empty or zero is rejected; a non-empty title with at
\* least one of the three holding a non-empty, non-zero value is accepted.
C10_QualityGateZeroIsEmpty ==
    vpc = "returned" =>
        /\ IsEmpty(data.title) => ~valid
        /\ (~IsEmpty(data.title) /\ \A f \in RequiredFields : IsEmptyOrZero(data[f]))
              => ~valid
        /\ (~IsEmpty(data.title) /\ \E f \in RequiredFields : ~IsEmptyOrZero(data[f]))
              => valid

\* a record accepted on the strength of exactly one populated field
C10_AcceptedOnOneField ==
    /\ vpc = "returned"
    /\ valid
    /\ Cardinality({f \in RequiredFields : ~IsEmptyOrZero(data[f])}) = 1

\* C11: _scrape_single_listing returns no record for an apartment listing whose
\* page yields no price, no address and no coordinates.
C11_NoPlaceholderRecord ==
    (lpc = "returned" /\ listing.some)
        => (price # PyNone \/ IsTrue(address) \/ coords # <<PyNone, PyNone>>)

\* a log entry of a strategy that yielded a non-empty result
NonEmpty(e) == e.kind = "value" /\ e.v.t = "text" /\ e.v.toks # << >>

LastTried == tried[Len(tried)]

\* C12: a cascade tries its strategies in order, a strategy that raises or
\* finds nothing is followed by the next one, no strategy is invoked after the
\* first one that yields a non-empty result, and the cascade's result comes
\* from that strategy alone (None once every strategy has failed).
C12_FirstSuccessWins ==
    /\ \A k \in 1..(Len(tried) - 1) : ~NonEmpty(tried[k])
    /\ lpc = "title_done" =>
         IF NonEmpty(LastTried) THEN title = LastTried.v
         ELSE Len(tried) = NumTitleSelectors /\ title \in {NoText, Text(<< >>)}
    /\ lpc = "price_done" =>
         IF NonEmpty(LastTried) THEN price = normalize_price(LastTried.v)
         ELSE Len(tried) = NumPriceStrategies /\ price = PyNone
    /\ lpc = "address_done" =>
         IF NonEmpty(LastTried) THEN address = LastTried.v
         ELSE Len(tried) = NumAddressSelectors /\ address = NoText

\* the address cascade ended at its second selector after the first one raised
C12_SecondStrategyWins ==
    /\ lpc = "address_done"
    /\ Len(tried) = 2
    /\ tried[1] = Raised
    /\ NonEmpty(tried[2])
    /\ address = tried[2].v

\* C13: _extract_price returns None only when every strategy was tried and
\* each one's result was empty or could not be parsed by normalize_price.
C13_InvalidPriceFallsThrough ==
    (lpc = "price_done" /\ price = PyNone)
        => /\ Len(tried) = NumPriceStrategies
           /\ \A k \in 1..Len(tried) :
                ~NonEmpty(tried[k]) \/ normalize_price(tried[k].v) = PyNone

\* the complete rows a save_to_csv call left in the store
RowsOfCall(w, k) == SelectSeq(LinesOf(w, k), LAMBDA l : l.kind = "R")

\* C15: a batch write is all-or-nothing: once a save_to_csv call is over,
\* the store holds all rows of its batch or none of them, and no partial row.
C15_BatchAllOrNothing ==
    \A w \in Workers : \A k \in 1..ncall[w] :
        Completed(w, k) =>
            /\ Len(RowsOfCall(w, k)) \in {0, Len(handed[w][k])}
            /\ \A j \in 1..Len(file.lines) : file.lines[j].kind # "T"

\* the worker is past its per-URL loop
PastLoop(w) ==
    \/ pc[w] \in {"finally", "quit", "done"}
    \/ InSave(w) /\ ret[w] = "quit"
    \/ pc[w] = "failed" /\ session[w].created > 0

\* C18: a worker passes the URLs of its chunk to the scraper once each and in
\* the chunk's order, and an error raised while one URL is processed does
\* not end the loop: a worker that is not interrupted leaves the loop only
\* after it has attempted every URL of the chunk.
C18_EveryUrlOnceInOrder ==
    \A w \in Workers :
        /\ IsPrefix(attempted[w], chunk[w])
        /\ (PastLoop(w) /\ ~interrupted[w]) => attempted[w] = chunk[w]

\* a save raised inside the loop and the worker went on to a further URL
C18_ErrorThenNextUrl ==
    \E e \in io_failed :
        /\ e.from = "reset"
        /\ Len(attempted[e.w]) > e.at
        /\ pc[e.w] = "done"

\* C14: a batch write that fails is attempted again: when scrape_city has
\* returned, every _save_to_csv_incremental call that failed was followed by
\* another call for the same records.
C14_FailedWriteRetried ==
    cpc = "returned" =>
        \A k \in 1..Len(save_log) :
            ~save_log[k].ok =>
                \E j \in (k + 1)..Len(save_log) :
                    Range(save_log[k].urls) \subseteq Range(save_log[j].urls)

\* the value the row of a record must hold in a column the record lacks
ExpectedDefault(field) ==
    IF field \in {"property_url", "category", "address", "zone", "city", "wifi_speed",
                  "latitude", "longitude"}
    THEN "" ELSE "0"

\* a row holds one value per column: the record's value where it has one,
\* else the default of the column
RowPopulated(cells, item, fields) ==
    /\ Len(cells) = Len(fields)
    /\ \A k \in 1..Len(fields) :
         cells[k] = IF fields[k] \in DOMAIN item /\ item[fields[k]] # NoneVal
                    THEN item[fields[k]] ELSE ExpectedDefault(fields[k])

\* C16: every row save_to_csv writes has one value for each column in use,
\* taken from the record where present and not None, else '' for
\* property_url, the text fields and the coordinates, and 0 for every other
\* field; no row is shorter than the header.
C16_RowsFullyPopulated ==
    \A j \in 1..Len(wifi_file.lines) :
        wifi_file.lines[j].kind = "R" =>
            /\ RowPopulated(wifi_file.lines[j].cells, wifi_file.lines[j].item, WifiFields)
            /\ Len(wifi_file.lines[j].cells) >= Len(wifi_file.lines[1].cells)

\* C17: with fewer URLs than workers no worker is started, and no browser
\* session created, for an empty chunk.
C17_NoWorkerForEmptyChunk ==
    \A w \in Workers :
        (pc[w] # "idle" \/ session[w].created > 0) => chunk[w] # << >>

\* C19: once the stop signal has been raised no worker goes on to a further
\* URL of its chunk.
C19_WorkersStopAtBoundary ==
    [][opc = "stopping" => attempted' = attempted]_vars

\* C20: each worker creates one browser session and is its only user, the
\* discovery session is closed before any worker starts, and no more than
\* num_threads worker sessions are open at the same time.
C20_ExclusiveSessions ==
    /\ \A w \in Workers :
         /\ session[w].created <= 1
         /\ session[w].users \subseteq {w}
         /\ session[w].users # {} => session[w].created = 1
         /\ pc[w] # "idle" => disc_session = "closed"
    /\ Cardinality({w \in Workers : session[w].open}) <= num_threads

\* two workers hold an open session each and have both used it
C20_TwoSessionsOpen ==
    /\ opc = "wait"
    /\ \A w \in Workers : session[w].open /\ session[w].users = {w}

\* C21: once the page of a query shows a captcha, an error or an empty
\* result, scrape_property_urls makes no further scroll or load-more attempt
\* for that query
C21_SignalStopsQuery ==
    ~(rpc = "scroll" /\ r_signal \in {"captcha", "noresults", "error"})

\* C24: the list scrape_property_urls collects and returns never has more
\* entries than max_links, whatever the number of destinations
C24_ReturnedWithinCap ==
    /\ Len(r_urls) <= max_links
    /\ rpc = "returned" => Len(r_found) <= max_links

\* the second destination offered more listings than the cap left room for
C24_CapCutSecondQuery ==
    /\ rpc = "returned"
    /\ r_skipped = 2
    /\ max_links = 2
    /\ Len(r_found) = max_links

\* C22: a failure during URL discovery is not escalated to the orchestrator:
\* scrape_property_urls never ends by raising into scrape_booking_properties
C22_FailureNotEscalated ==
    ~(mpc = "raised" /\ opc = "raised")

\* C23: discovery ends, whatever the "more results" control does
C23_DiscoveryTerminates ==
    <>(mpc \in {"returned", "raised"})

\* C25: every URL _load_all_listings returns is an href as it was discovered,
\* query string included
C25_ReturnsOriginalUrls ==
    apc = "returned" => \A k \in 1..Len(loaded) : loaded[k] \in met_hrefs

\* C26: when the store exists as the run starts, the batches the run writes
\* extend it: its header and its rows stay where they were
C26_FirstBatchExtendsStore ==
    (initial_file.exists /\ batch_number > 1)
        => IsPrefix(initial_file.lines, backup_file.lines)

\* the characters of a price text that are a digit, ',' or '.'
C27_Kept(chars) ==
    SelectSeq(chars, LAMBDA c : c \in {"0", "1", "2", "3", "4", "5", "6", "7", "8", "9", ",", "."})

\* the text the separator rules of the specification leave
C27_Cleaned(chars) ==
    LET kept == C27_Kept(chars)
        commas == {k \in 1..Len(kept) : kept[k] = ","}
        points == {k \in 1..Len(kept) : kept[k] = "."}
    IN  IF commas # {} /\ points # {}
        THEN [k \in 1..(Len(kept) - Cardinality(commas)) |->
                 kept[CHOOSE i \in 1..Len(kept) :
                        /\ i \notin commas
                        /\ Cardinality({j \in 1..i : j \notin commas}) = k]]
        ELSE [k \in 1..Len(kept) |-> IF k \in commas THEN "." ELSE kept[k]]

\* C27: normalize_price keeps digits, ',' and '.', drops the commas when a
\* point is there too, else reads a comma as the point, and gives the number
\* parsed, or None for an empty text or one that does not parse; "1,234.56"
\* and "1234,56" give 1234.56 and "abc" gives None
C27_NormalizePrice ==
    fpc = "price_done" =>
        /\ fres.t \in {"none", "num"}
        /\ ~IsTrue(farg) => fres = PyNone
        /\ IsTrue(farg) =>
             LET f == ParseFloat(C27_Cleaned(farg.toks))
             IN  fres = IF f.ok THEN PyNum(f.n) ELSE PyNone
        /\ farg = Text(<<"1", ",", "2", "3", "4", ".", "5", "6">>) => fres = PyNum(1234560)
        /\ farg = Text(<<"1", "2", "3", "4", ",", "5", "6">>) => fres = PyNum(1234560)
        /\ farg = Text(<<"a", "b", "c">>) => fres = PyNone

\* the decimal comma was read as the point
C27_DecimalComma ==
    /\ fpc = "price_done"
    /\ farg = Text(<<"1", "2", "3", "4", ",", "5", "6">>)
    /\ fres = PyNum(1234560)

\* the captured texts that denote a latitude in [-90, 90]
LatInRange == {"0", "10", "33.5", "45.5", "-7.6", "-73.6", "90", "-90"}

\* the captured texts that denote a longitude in [-180, 180]
LngInRange == LatInRange \cup {"90.1", "-90.1", "91", "95.0", "180", "-180"}

\* C28: validate_coordinates gives the pair exactly when the latitude is in
\* [-90, 90] and the longitude in [-180, 180], bounds included, and else gives
\* None for both; (91, 10) is rejected and (45.5, -73.6) is accepted
C28_ValidateCoordinates ==
    fpc = "coords_done" =>
        /\ (farg[1] \in LatInRange /\ farg[2] \in LngInRange)
               => fres = <<PyNum(CoordFloat(farg[1]).n), PyNum(CoordFloat(farg[2]).n)>>
        /\ ~(farg[1] \in LatInRange /\ farg[2] \in LngInRange) => fres = <<PyNone, PyNone>>
        /\ (fres[1] = PyNone) <=> (fres[2] = PyNone)
        /\ farg = <<"91", "10">> => fres = <<PyNone, PyNone>>
        /\ farg = <<"45.5", "-73.6">> => fres = <<PyNum(455), PyNum(0 - 736)>>

\* a pair on the bounds of both ranges was accepted
C28_BoundsAccepted ==
    /\ fpc = "coords_done"
    /\ farg = <<"-90", "180">>
    /\ fres = <<PyNum(0 - 900), PyNum(1800)>>

\* C29: scrape_property_data stores the pair found in the page source exactly
\* when its latitude is in [-90, 90] and its longitude in [-180, 180], zero
\* included, and never stores one of the two alone
C29_StoredIffInRange ==
    fpc = "threaded_done" =>
        /\ (fres[1] # PyNone /\ fres[2] # PyNone)
               <=> (farg # << >> /\ farg[1] \in LatInRange /\ farg[2] \in LngInRange)
        /\ (fres[1] = PyNone) <=> (fres[2] = PyNone)

\* the title words that contain an exclusion keyword ('spa' in 'spacious')
WordsExcluded == {"Hotel", "Riad", "Spacious"}

\* the title words that contain an inclusion keyword
WordsIncluded == {"Studio", "Loft"}

\* C30: is_apartment rejects a title that contains an exclusion keyword,
\* whatever else the title or the page holds; otherwise it accepts exactly
\* when an inclusion keyword occurs in the title or in the page text; an
\* empty title is rejected
C30_IsApartment ==
    fpc = "classify_done" =>
        LET words == Range(farg[1].toks)
        IN  /\ words = {} => fres = FALSE
            /\ words \cap WordsExcluded # {} => fres = FALSE
            /\ (words # {} /\ words \cap WordsExcluded = {})
                   => (fres <=> (words \cap WordsIncluded # {} \/ farg[2] = <<"apartment">>))

\* a title with an exclusion and an inclusion keyword was rejected although
\* the page text names an apartment
C30_ExclusionWins ==
    /\ fpc = "classify_done"
    /\ farg = <<Text(<<"Loft", "Hotel">>), <<"apartment">>>>
    /\ fres = FALSE

\* C31: scrape_property_data never raises, and the record it returns has
\* property_id, scrape_timestamp and property_url set and the fields of every
\* failed step unknown (None, or 'Not specified' for wifi_speed); a failed
\* reverse geocoding leaves the location unknown and the coordinates in place
C31_NeverRaises ==
    /\ qpc # "raised"
    /\ qpc = "returned" =>
         /\ pdata.property_id = "set"
         /\ pdata.scrape_timestamp = "set"
         /\ pdata.property_url = "set"
         /\ "get" \in p_failed => pdata = InitialData
         /\ "category" \in p_failed => pdata.category = NoneVal
         /\ "prices" \in p_failed => pdata.prices = NoneVal
         /\ "wifi" \in p_failed => pdata.wifi_speed \in {NoneVal, "Not specified"}
         /\ "reviews" \in p_failed => pdata.scores = NoneVal /\ pdata.traveler = NoneVal
         /\ "traveler" \in p_failed => pdata.traveler = NoneVal
         /\ "coords" \in p_failed => pdata.latlon = NoneVal /\ pdata.location = NoneVal
         /\ "geocode" \in p_failed => pdata.location = NoneVal /\ pdata.latlon = "val"

\* a record came back after the prices and the reverse geocoding failed
C31_GeocodeFailedRecordKept ==
    /\ qpc = "returned"
    /\ {"prices", "geocode"} \subseteq p_failed
    /\ pdata.latlon = "val"
    /\ pdata.category = "val"

\* C37: when scrape_property_data returns, the active window is the property
\* page's window, no review window is left open, and the coordinates were
\* read from the property page
C37_WindowRestored ==
    qpc = "returned" =>
        /\ active = "parent"
        /\ windows = 1
        /\ coords_from \in {"none", "parent"}

\* C38: the review-link loop waits on the three listed locators in their
\* order, each at most once
C38_ThreeLocatorsInOrder ==
    IsPrefix(locators, ListedLocators)

\* C33: no record is written to the store more than once: no two rows of
\* the store are rows of the same URL
C33_NoRecordTwice ==
    \A j, k \in 1..Len(file.lines) :
        (j < k /\ file.lines[j].kind = "R" /\ file.lines[k].kind = "R")
            => file.lines[j].url # file.lines[k].url

\* C35: a worker that holds a browser session leaves worker_thread only
\* through driver.quit(): every step that ends the worker is the quit step
C35_ExitThroughQuit ==
    [][\A w \in Workers :
          (pc'[w] \in {"done", "failed"} /\ pc[w] \notin {"done", "failed"} /\ session[w].open)
              => pc[w] = "quit"]_vars

\* C36: a store that holds a data row begins with a header row and holds no
\* other header row
C36_OneHeaderFirst ==
    (\E k \in 1..Len(file.lines) : file.lines[k].kind = "R")
        => /\ file.lines[1].kind = "H"
           /\ \A k \in 2..Len(file.lines) : file.lines[k].kind # "H"

\* C39: a listing whose scrape attempt met an error is invoked max_retries
\* times before it is given up, and is then given up with the error raised
\* to scrape_city, unless one of the attempts returned the record.
C39_FailedScrapeRetried ==
    \A k \in 1..Len(t_log) :
        t_log[k].errored =>
            \/ t_log[k].how = "scraped"
            \/ t_log[k].how = "raised" /\ t_log[k].calls = max_retries

C32_CountMatchesStore ==
    g_mpc = "done" => g_total = Len(g_rows) /\ g_total <= g_n

\* C34: every row of the store was written with a column list that starts
\* with the header's columns in the header's order, whatever the interleaving
\* of the workers' write_batch calls.
C34_RowsFollowHeader ==
    \A k \in 2..Len(x_file.lines) :
        IsPrefix(x_file.lines[1].cols, x_file.lines[k].cols)

====
